---------------------------- MODULE Spec2Model ----------------------------
(***************************************************************************)
(* Model of the CI-provider metadata resolution of the BuildPulse test     *)
(* reporter: provider detection (newProviderMetadata), the provider        *)
(* variants' Init and accessors, commit resolution, NewMetadata and        *)
(* MarshalYAML.                                                            *)
(*                                                                         *)
(* Go strings are modelled as sequences of one-character strings, so that  *)
(* prefix tests, regular-expression matches and number parsing are         *)
(* computed character by character as the code computes them.  A Go map    *)
(* map[string]string is a function whose domain is the set of keys         *)
(* present.  Unsigned integers are naturals.                               *)
(***************************************************************************)
EXTENDS Integers, Sequences, FiniteSets, TLC

VARIABLES
  envs,        \* the process environment handed to NewMetadata
  resolver,    \* the CommitResolver handed to NewMetadata
  tags,        \* the caller's tags
  quotaID,     \* the caller's quota ID
  clock,       \* the value the injected clock returns
  version,     \* the Version descriptor
  pc,          \* position inside NewMetadata / MarshalYAML
  pm,          \* the providerMetadata variant selected (and later initialised)
  m,           \* the Metadata under construction
  err,         \* the error NewMetadata returns (NoError when none)
  lookupErr,   \* the error commitResolver.Lookup returned (NoError when none)
  log,         \* the lines written to the logger, in order
  calls,       \* how often the resolver's Lookup and the clock were called
  yaml,        \* the document MarshalYAML returned
  yamlErr,     \* the error MarshalYAML returned (NoError when none)
  lookups,     \* the calls of the resolver's Lookup so far: what was asked
               \* and what came back, in order
  encoder,     \* which of MarshalYAML's two yaml.Marshal calls returns an
               \* error: "none", "universal" or "provider"
  previous,    \* what the earlier invocation on the same inputs produced
  wall,        \* the reading of the process's own clock, time.Now()
  submit,      \* the Submit command: its flags before Init, its fields after
  fsys,        \* the file system Submit.Init looks at
  tar,         \* the Tar being written: its directories and its entries
  run          \* Submit.Run: what may fail in it, and what it has produced

\* what no step of NewMetadata or of a resolver writes
others == <<encoder, previous, wall, submit, fsys, tar, run>>

vars == <<envs, resolver, tags, quotaID, clock, version, pc, pm, m, err,
          lookupErr, log, calls, yaml, yamlErr, lookups, encoder, previous,
          wall, submit, fsys, tar, run>>

---------------------------------------------------------------------------
(* Bounds of the model.                                                    *)

\* At most this many provider trigger variables are set at once.
MaxTriggers == 2
\* Longest exhaustively enumerated CODEBUILD_PUBLIC_BUILD_URL.
MaxURLLen == 3
\* Longest exhaustively enumerated git remote URL tail.
MaxTailLen == 2
\* Longest exhaustively enumerated pull-request number string.
MaxNumLen == 3

---------------------------------------------------------------------------
(* Go strings.                                                             *)

EmptyString == <<>>

\* string literals of the source
sTrue == <<"t","r","u","e">>
sPullRequest == <<"p","u","l","l","_","r","e","q","u","e","s","t">>
sRefsHeads == <<"r","e","f","s","/","h","e","a","d","s","/">>
sDotGit == <<".","g","i","t">>
sGithubCom == <<"g","i","t","h","u","b",".","c","o","m">>
sDefaultServerURL ==
  <<"h","t","t","p","s",":","/","/","g","i","t","h","u","b",".","c","o","m">>

\* strings.HasPrefix
HasPrefix(s, p) == Len(s) >= Len(p) /\ SubSeq(s, 1, Len(p)) = p

\* strings.HasSuffix
HasSuffix(s, p) ==
  Len(s) >= Len(p) /\ SubSeq(s, Len(s) - Len(p) + 1, Len(s)) = p

\* strings.TrimPrefix
TrimPrefix(s, p) == IF HasPrefix(s, p) THEN SubSeq(s, Len(p) + 1, Len(s)) ELSE s

\* strings.TrimSuffix
TrimSuffix(s, p) == IF HasSuffix(s, p) THEN SubSeq(s, 1, Len(s) - Len(p)) ELSE s

\* strings.Index: the 0-based index of the first occurrence of sub, or -1.
Index(s, sub) ==
  LET hits == {i \in 0..(Len(s) - Len(sub)) : SubSeq(s, i + 1, i + Len(sub)) = sub}
  IN IF hits = {} THEN -1 ELSE CHOOSE i \in hits : \A j \in hits : i <= j

\* strings.LastIndex
LastIndex(s, sub) ==
  LET hits == {i \in 0..(Len(s) - Len(sub)) : SubSeq(s, i + 1, i + Len(sub)) = sub}
  IN IF hits = {} THEN -1 ELSE CHOOSE i \in hits : \A j \in hits : i >= j

\* strings.Contains
Contains(s, sub) == Index(s, sub) >= 0

\* strings.Count of a one-character substring
Count(s, c) == Cardinality({i \in 1..Len(s) : s[i] = c})

\* strings.Split(s, sep) for a one-character separator: the fields between
\* the separators, always at least one.
RECURSIVE Split(_, _)
Split(s, sep) ==
  LET i == Index(s, <<sep>>)
  IN IF i < 0 THEN <<s>>
     ELSE <<SubSeq(s, 1, i)>> \o Split(SubSeq(s, i + 2, Len(s)), sep)

\* fmt.Sprintf("%s/%s", a, b)
SlashJoin(a, b) == a \o <<"/">> \o b

\* Go's map index expression envs[k]: the zero value "" for a missing key.
Get(e, k) == IF k \in DOMAIN e THEN e[k] ELSE EmptyString

\* All strings over alphabet A of length at most n.
RECURSIVE StringsUpTo(_, _)
StringsUpTo(A, n) ==
  IF n = 0 THEN {EmptyString}
  ELSE LET shorter == StringsUpTo(A, n - 1)
       IN shorter \cup {Append(s, c) : s \in shorter, c \in A}

Digits == {"0","1","2","3","4","5","6","7","8","9"}

LowerLetters ==
  <<"a","b","c","d","e","f","g","h","i","j","k","l","m",
    "n","o","p","q","r","s","t","u","v","w","x","y","z">>
UpperLetters ==
  <<"A","B","C","D","E","F","G","H","I","J","K","L","M",
    "N","O","P","Q","R","S","T","U","V","W","X","Y","Z">>

IsLetter(c) == \E i \in 1..26 : LowerLetters[i] = c \/ UpperLetters[i] = c
IsDigit(c) == c \in Digits

\* strconv's lower(c)
Lower(c) ==
  IF \E i \in 1..26 : UpperLetters[i] = c
  THEN LowerLetters[CHOOSE i \in 1..26 : UpperLetters[i] = c]
  ELSE c

\* the value of a digit character
DigitOf(c) ==
  CASE c = "0" -> 0 [] c = "1" -> 1 [] c = "2" -> 2 [] c = "3" -> 3
    [] c = "4" -> 4 [] c = "5" -> 5 [] c = "6" -> 6 [] c = "7" -> 7
    [] c = "8" -> 8 [] c = "9" -> 9

\* the digit value strconv.ParseUint gives a digit (0..9) or a letter of
\* either case (10..35)
DigitValue(c) ==
  IF IsDigit(c) THEN DigitOf(c)
  ELSE 9 + (CHOOSE i \in 1..26 : LowerLetters[i] = Lower(c))

---------------------------------------------------------------------------
(* Unsigned integers.  A uint64 does not fit the integers of the checker,  *)
(* so an unsigned integer is the sequence of its decimal digits, most      *)
(* significant first and without leading zeros; <<0>> is zero.             *)

RECURSIVE Uint(_)
Uint(n) == IF n < 10 THEN <<n>> ELSE Uint(n \div 10) \o <<n % 10>>
MaxUint32 == <<4,2,9,4,9,6,7,2,9,5>>
MaxUint64 == <<1,8,4,4,6,7,4,4,0,7,3,7,0,9,5,5,1,6,1,5>>

RECURSIVE Canonical(_)
Canonical(ds) ==
  IF Len(ds) > 1 /\ ds[1] = 0 THEN Canonical(Tail(ds)) ELSE ds

\* the digits of n * b + c, for a small b and c
RECURSIVE MulAddDigits(_, _, _)
MulAddDigits(n, b, c) ==
  IF n = <<>> THEN IF c = 0 THEN <<>> ELSE Uint(c)
  ELSE MulAddDigits(SubSeq(n, 1, Len(n) - 1), b, (n[Len(n)] * b + c) \div 10)
       \o <<(n[Len(n)] * b + c) % 10>>
MulAdd(n, b, c) == Canonical(MulAddDigits(n, b, c))

\* x > y
GreaterThan(x, y) ==
  \/ Len(x) > Len(y)
  \/ /\ Len(x) = Len(y)
     /\ \E i \in 1..Len(x) :
          x[i] > y[i] /\ \A j \in 1..(i - 1) : x[j] = y[j]

---------------------------------------------------------------------------
(* strconv.ParseUint.  The result is [ok, val, err]: err is "none",        *)
(* "invalid syntax" (val is 0) or "value out of range" (val is the         *)
(* greatest value of bitSize bits).  bitSize 0 is the size of uint, 64 on  *)
(* the 64-bit builds released.                                             *)

ParseFail == [ok |-> FALSE, val |-> Uint(0), err |-> "invalid syntax"]
RangeFail(maxVal) ==
  [ok |-> FALSE, val |-> maxVal, err |-> "value out of range"]

\* the digit loop of ParseUint over s[i..], with n accumulated so far; n >=
\* cutoff, for cutoff = maxUint64/base + 1, is n * base > maxUint64, and
\* n1 < n (the sum wrapped around) is n * base + d > maxUint64
RECURSIVE ParseDigits(_, _, _, _, _, _)
ParseDigits(s, i, base, base0, n, maxVal) ==
  IF i > Len(s) THEN [ok |-> TRUE, val |-> n, err |-> "none"]
  ELSE IF s[i] = "_" /\ base0
       THEN ParseDigits(s, i + 1, base, base0, n, maxVal)
  ELSE IF ~(IsDigit(s[i]) \/ IsLetter(s[i])) THEN ParseFail
  ELSE IF DigitValue(s[i]) >= base THEN ParseFail
  ELSE IF GreaterThan(MulAdd(n, base, 0), MaxUint64) THEN RangeFail(maxVal)
  ELSE IF \/ GreaterThan(MulAdd(n, base, DigitValue(s[i])), MaxUint64)
          \/ GreaterThan(MulAdd(n, base, DigitValue(s[i])), maxVal)
       THEN RangeFail(maxVal)
  ELSE ParseDigits(s, i + 1, base, base0,
                   MulAdd(n, base, DigitValue(s[i])), maxVal)

\* strconv.underscoreOK from position i on; saw is the class of the last
\* character: "^" beginning, "0" digit, "_" underscore, "!" anything else.
RECURSIVE UnderscoreScan(_, _, _, _)
UnderscoreScan(s, i, saw, hex) ==
  IF i > Len(s) THEN saw # "_"
  ELSE IF IsDigit(s[i]) \/ (hex /\ Lower(s[i]) \in {"a","b","c","d","e","f"})
       THEN UnderscoreScan(s, i + 1, "0", hex)
  ELSE IF s[i] = "_"
       THEN IF saw # "0" THEN FALSE ELSE UnderscoreScan(s, i + 1, "_", hex)
  ELSE IF saw = "_" THEN FALSE
  ELSE UnderscoreScan(s, i + 1, "!", hex)

underscoreOK(s0) ==
  LET s == IF Len(s0) >= 1 /\ s0[1] \in {"-", "+"} THEN Tail(s0) ELSE s0
      prefixed == Len(s) >= 2 /\ s[1] = "0" /\ Lower(s[2]) \in {"b", "o", "x"}
  IN IF prefixed
     THEN UnderscoreScan(s, 3, "0", Lower(s[2]) = "x")
     ELSE UnderscoreScan(s, 1, "^", FALSE)

ParseUint(s, base, bitSize) ==
  IF s = EmptyString THEN ParseFail
  ELSE
    LET base0 == base = 0
        pre ==
          IF base0 /\ s[1] = "0"
          THEN IF Len(s) >= 3 /\ Lower(s[2]) = "b"
               THEN [base |-> 2, rest |-> SubSeq(s, 3, Len(s))]
               ELSE IF Len(s) >= 3 /\ Lower(s[2]) = "o"
               THEN [base |-> 8, rest |-> SubSeq(s, 3, Len(s))]
               ELSE IF Len(s) >= 3 /\ Lower(s[2]) = "x"
               THEN [base |-> 16, rest |-> SubSeq(s, 3, Len(s))]
               ELSE [base |-> 8, rest |-> Tail(s)]
          ELSE [base |-> IF base0 THEN 10 ELSE base, rest |-> s]
        maxVal == IF bitSize = 32 THEN MaxUint32 ELSE MaxUint64
        r == ParseDigits(pre.rest, 1, pre.base, base0, Uint(0), maxVal)
    IN IF ~r.ok THEN r
       ELSE IF Contains(pre.rest, <<"_">>) /\ base0 /\ ~underscoreOK(s)
            THEN ParseFail
       ELSE r

\* the %d verb of fmt.Sprintf for an unsigned number
DigitChars == <<"0","1","2","3","4","5","6","7","8","9">>
RECURSIVE FormatUint(_)
FormatUint(n) ==
  IF Len(n) = 1 THEN <<DigitChars[n[1] + 1]>>
  ELSE FormatUint(SubSeq(n, 1, Len(n) - 1)) \o <<DigitChars[n[Len(n)] + 1]>>

\* strconv.ParseBool
ParseBool(s) ==
  IF s \in {<<"1">>, <<"t">>, <<"T">>, <<"T","R","U","E">>, sTrue,
            <<"T","r","u","e">>}
  THEN [ok |-> TRUE, val |-> TRUE]
  ELSE IF s \in {<<"0">>, <<"f">>, <<"F">>, <<"F","A","L","S","E">>,
                 <<"f","a","l","s","e">>, <<"F","a","l","s","e">>}
  THEN [ok |-> TRUE, val |-> FALSE]
  ELSE [ok |-> FALSE, val |-> FALSE]

---------------------------------------------------------------------------
(* Bytes.  A character is a string of one character; a byte that a string  *)
(* literal cannot hold (the backquote, and what lies outside the printable *)
(* ASCII range and has no escape) is named by the four characters \xHH.    *)

Printable ==
  <<" ", "!", "\"", "#", "$", "%", "&", "'", "(", ")", "*", "+", ",", "-",
    ".", "/", "0", "1", "2", "3", "4", "5", "6", "7", "8", "9", ":", ";",
    "<", "=", ">", "?", "@", "A", "B", "C", "D", "E", "F", "G", "H", "I",
    "J", "K", "L", "M", "N", "O", "P", "Q", "R", "S", "T", "U", "V", "W",
    "X", "Y", "Z", "[", "\\", "]", "^", "_", "\\x60", "a", "b", "c", "d", "e",
    "f", "g", "h", "i", "j", "k", "l", "m", "n", "o", "p", "q", "r", "s",
    "t", "u", "v", "w", "x", "y", "z", "{", "|", "}", "~">>
HexDigitChars ==
  <<"0","1","2","3","4","5","6","7","8","9","a","b","c","d","e","f">>

\* a string literal as the sequence of its characters
Chars(str) == [i \in 1..Len(str) |-> SubSeq(str, i, i)]

\* the character of the byte v (0..255)
ByteChar(v) ==
  IF v \in 32..126 THEN Printable[v - 31]
  ELSE IF v = 9 THEN "\t"
  ELSE IF v = 10 THEN "\n"
  ELSE IF v = 12 THEN "\f"
  ELSE IF v = 13 THEN "\r"
  ELSE "\\x" \o HexDigitChars[(v \div 16) + 1] \o HexDigitChars[(v % 16) + 1]

\* strconv.Quote(s): the Go string literal of s in double quotes. The quote
\* and the backslash are escaped, a printable character stands for itself,
\* a control character has its letter escape or \xhh, as has a byte that is
\* not part of the encoding of a rune, and a rune that is not printable
\* (those named here, of White_Space, are not) has \uhhhh or \Uhhhhhhhh in
\* lower-case digits.
IsPrint(c) == \E i \in 1..Len(Printable) : Printable[i] = c
IsNamedRune(c) == Len(c) > 2 /\ SubSeq(c, 1, 2) = "U+"
RuneDigits(c) == [i \in 1..(Len(c) - 2) |-> Lower(SubSeq(c, i + 2, i + 2))]
PadZeros(digits, width) ==
  [i \in 1..(width - Len(digits)) |-> "0"] \o digits
QuoteRune(c) ==
  IF c = "\"" THEN <<"\\", "\"">>
  ELSE IF c = "\\" THEN <<"\\", "\\">>
  ELSE IF IsPrint(c) THEN <<c>>
  ELSE IF c = "\\x07" THEN <<"\\", "a">>
  ELSE IF c = "\\x08" THEN <<"\\", "b">>
  ELSE IF c = "\f" THEN <<"\\", "f">>
  ELSE IF c = "\n" THEN <<"\\", "n">>
  ELSE IF c = "\r" THEN <<"\\", "r">>
  ELSE IF c = "\t" THEN <<"\\", "t">>
  ELSE IF c = "\\x0b" THEN <<"\\", "v">>
  ELSE IF IsNamedRune(c)
  THEN IF Len(c) <= 6
       THEN <<"\\", "u">> \o PadZeros(RuneDigits(c), 4)
       ELSE <<"\\", "U">> \o PadZeros(RuneDigits(c), 8)
  ELSE Chars(c)
RECURSIVE QuoteRunes(_)
QuoteRunes(s) ==
  IF s = <<>> THEN <<>> ELSE QuoteRune(Head(s)) \o QuoteRunes(Tail(s))
Quote(s) == <<"\"">> \o QuoteRunes(s) \o <<"\"">>

\* b < 0x80, and b < ' ' || b == 0x7f
IsASCII(c) == \E v \in 0..127 : ByteChar(v) = c
IsCTLByte(c) == \E v \in (0..31) \cup {127} : ByteChar(v) = c

---------------------------------------------------------------------------
(* net/url.Parse, as far as RepoNameWithOwner of aws-codebuild reads it:   *)
(* whether the parse fails and, if not, the Path.                          *)

\* url.stringContainsCTLByte
stringContainsCTLByte(s) == \E i \in 1..Len(s) : IsCTLByte(s[i])

\* url.ishex and url.unhex
ishex(c) == IsDigit(c) \/ Lower(c) \in {"a", "b", "c", "d", "e", "f"}
unhex(c) == DigitValue(c)

\* url.shouldEscape(c, mode)
shouldEscape(c, mode) ==
  IF IsLetter(c) \/ IsDigit(c) THEN FALSE
  ELSE IF /\ mode \in {"encodeHost", "encodeZone"}
          /\ c \in {"!", "$", "&", "'", "(", ")", "*", "+", ",", ";", "=",
                    ":", "[", "]", "<", ">", "\""}
       THEN FALSE
  ELSE IF c \in {"-", "_", ".", "~"} THEN FALSE
  ELSE IF /\ c \in {"$", "&", "+", ",", "/", ":", ";", "=", "?", "@"}
          /\ mode \in {"encodePath", "encodePathSegment",
                       "encodeUserPassword", "encodeQueryComponent",
                       "encodeFragment"}
       THEN CASE mode = "encodePath" -> c = "?"
              [] mode = "encodePathSegment" -> c \in {"/", ";", ",", "?"}
              [] mode = "encodeUserPassword" -> c \in {"@", "/", "?", ":"}
              [] mode = "encodeQueryComponent" -> TRUE
              [] mode = "encodeFragment" -> FALSE
  ELSE IF mode = "encodeFragment" /\ c \in {"!", "(", ")", "*"} THEN FALSE
  ELSE TRUE

\* url.unescape(s, mode): [ok, s]
UnescapeFail == [ok |-> FALSE, s |-> EmptyString]
Unescaped(c, r) == IF r.ok THEN [ok |-> TRUE, s |-> <<c>> \o r.s] ELSE r
RECURSIVE unescapeFrom(_, _, _)
unescapeFrom(s, i, mode) ==
  IF i > Len(s) THEN [ok |-> TRUE, s |-> EmptyString]
  ELSE IF s[i] = "%"
       THEN IF i + 2 > Len(s) \/ ~ishex(s[i + 1]) \/ ~ishex(s[i + 2])
            THEN UnescapeFail
            ELSE IF /\ mode = "encodeHost"
                    /\ unhex(s[i + 1]) < 8
                    /\ SubSeq(s, i, i + 2) # <<"%", "2", "5">>
            THEN UnescapeFail
            ELSE IF /\ mode = "encodeZone"
                    /\ SubSeq(s, i, i + 2) # <<"%", "2", "5">>
                    /\ 16 * unhex(s[i + 1]) + unhex(s[i + 2]) # 32
                    /\ shouldEscape(ByteChar(16 * unhex(s[i + 1])
                                             + unhex(s[i + 2])), "encodeHost")
            THEN UnescapeFail
            ELSE Unescaped(ByteChar(16 * unhex(s[i + 1]) + unhex(s[i + 2])),
                           unescapeFrom(s, i + 3, mode))
  ELSE IF s[i] = "+"
       THEN Unescaped(IF mode = "encodeQueryComponent" THEN " " ELSE "+",
                      unescapeFrom(s, i + 1, mode))
  ELSE IF /\ mode \in {"encodeHost", "encodeZone"}
          /\ IsASCII(s[i])
          /\ shouldEscape(s[i], "encodeHost")
       THEN UnescapeFail
  ELSE Unescaped(s[i], unescapeFrom(s, i + 1, mode))
unescape(s, mode) == unescapeFrom(s, 1, mode)

\* url.getScheme: [ok, scheme, rest]
RECURSIVE getSchemeFrom(_, _)
getSchemeFrom(rawURL, i) ==
  IF i > Len(rawURL) THEN [ok |-> TRUE, scheme |-> EmptyString, rest |-> rawURL]
  ELSE IF IsLetter(rawURL[i]) THEN getSchemeFrom(rawURL, i + 1)
  ELSE IF IsDigit(rawURL[i]) \/ rawURL[i] \in {"+", "-", "."}
       THEN IF i = 1
            THEN [ok |-> TRUE, scheme |-> EmptyString, rest |-> rawURL]
            ELSE getSchemeFrom(rawURL, i + 1)
  ELSE IF rawURL[i] = ":"
       THEN IF i = 1
            THEN [ok |-> FALSE, scheme |-> EmptyString, rest |-> EmptyString]
            ELSE [ok |-> TRUE, scheme |-> SubSeq(rawURL, 1, i - 1),
                  rest |-> SubSeq(rawURL, i + 1, Len(rawURL))]
  ELSE [ok |-> TRUE, scheme |-> EmptyString, rest |-> rawURL]

getScheme(rawURL) == getSchemeFrom(rawURL, 1)

\* url.validOptionalPort
validOptionalPort(port) ==
  IF port = EmptyString THEN TRUE
  ELSE IF port[1] # ":" THEN FALSE
  ELSE \A i \in 2..Len(port) : IsDigit(port[i])

\* url.parseHost for a host in brackets, whose last "]" is at index i
\* (from 0) and whose zone, if any, begins at index zone
parseBracketedHost(host, i, zone) ==
  IF i < 0 THEN FALSE
  ELSE IF ~validOptionalPort(SubSeq(host, i + 2, Len(host))) THEN FALSE
  ELSE IF zone >= 0
       THEN /\ unescape(SubSeq(host, 1, zone), "encodeHost").ok
            /\ unescape(SubSeq(host, zone + 1, i), "encodeZone").ok
            /\ unescape(SubSeq(host, i + 1, Len(host)), "encodeHost").ok
  ELSE unescape(host, "encodeHost").ok

\* url.parseHost: whether the host is accepted
parseHostOK(host) ==
  IF HasPrefix(host, <<"[">>)
  THEN parseBracketedHost(host, LastIndex(host, <<"]">>),
                          Index(SubSeq(host, 1, LastIndex(host, <<"]">>)),
                                <<"%", "2", "5">>))
  ELSE IF /\ LastIndex(host, <<":">>) # -1
          /\ ~validOptionalPort(SubSeq(host, LastIndex(host, <<":">>) + 1,
                                       Len(host)))
       THEN FALSE
  ELSE unescape(host, "encodeHost").ok

\* url.validUserinfo
validUserinfo(s) ==
  \A i \in 1..Len(s) :
     \/ IsLetter(s[i])
     \/ IsDigit(s[i])
     \/ s[i] \in {"-", ".", "_", ":", "~", "!", "$", "&", "'", "(", ")", "*",
                  "+", ",", ";", "=", "%", "@"}

\* url.parseAuthority for an authority whose last "@" is at index i (from
\* 0): whether it is accepted
parseAuthorityAt(authority, i) ==
  IF i < 0 THEN parseHostOK(authority)
  ELSE IF ~parseHostOK(SubSeq(authority, i + 2, Len(authority))) THEN FALSE
  ELSE IF ~validUserinfo(SubSeq(authority, 1, i)) THEN FALSE
  ELSE IF ~Contains(SubSeq(authority, 1, i), <<":">>)
       THEN unescape(SubSeq(authority, 1, i), "encodeUserPassword").ok
  ELSE /\ unescape(SubSeq(authority, 1,
                          Index(SubSeq(authority, 1, i), <<":">>)),
                   "encodeUserPassword").ok
       /\ unescape(SubSeq(authority,
                          Index(SubSeq(authority, 1, i), <<":">>) + 2, i),
                   "encodeUserPassword").ok
parseAuthorityOK(authority) ==
  parseAuthorityAt(authority, LastIndex(authority, <<"@">>))

\* URL.setPath(p): [ok, Path]
PathOf(r) == [ok |-> r.ok, Path |-> r.s]
setPath(p) == PathOf(unescape(p, "encodePath"))

\* url.parse(rawURL, viaRequest = false): [ok, Path].  urlparse reads the
\* scheme and cuts the query off; parseRest goes on with the scheme and the
\* rest, and parseAuthorityAndPath with the authority found after "//"
URLError == [ok |-> FALSE, Path |-> EmptyString]
CutQuery(rest, q) ==
  IF HasSuffix(rest, <<"?">>) /\ Count(rest, "?") = 1
  THEN SubSeq(rest, 1, Len(rest) - 1)
  ELSE IF q < 0 THEN rest ELSE SubSeq(rest, 1, q)
parseAuthorityAndPath(afterSlashes, hostEnd) ==
  IF ~parseAuthorityOK(IF hostEnd < 0 THEN afterSlashes
                       ELSE SubSeq(afterSlashes, 1, hostEnd))
  THEN URLError
  ELSE setPath(IF hostEnd < 0 THEN EmptyString
               ELSE SubSeq(afterSlashes, hostEnd + 1, Len(afterSlashes)))
parseRest(scheme, rest, slash) ==
  IF ~HasPrefix(rest, <<"/">>) /\ scheme # EmptyString
  THEN [ok |-> TRUE, Path |-> EmptyString]      \* an opaque URL
  ELSE IF /\ ~HasPrefix(rest, <<"/">>)
          /\ Contains(IF slash < 0 THEN rest ELSE SubSeq(rest, 1, slash),
                      <<":">>)
  THEN URLError
  ELSE IF /\ scheme # EmptyString \/ ~HasPrefix(rest, <<"/","/","/">>)
          /\ HasPrefix(rest, <<"/","/">>)
  THEN parseAuthorityAndPath(SubSeq(rest, 3, Len(rest)),
                             Index(SubSeq(rest, 3, Len(rest)), <<"/">>))
  ELSE setPath(rest)
parseAfterScheme(sch, rest) ==
  IF ~sch.ok THEN URLError
  ELSE parseRest(sch.scheme, rest, Index(rest, <<"/">>))
parseScheme(sch) ==
  parseAfterScheme(sch, CutQuery(sch.rest, Index(sch.rest, <<"?">>)))
urlparse(rawURL) ==
  IF stringContainsCTLByte(rawURL) THEN URLError
  ELSE IF rawURL = <<"*">> THEN [ok |-> TRUE, Path |-> <<"*">>]
  ELSE parseScheme(getScheme(rawURL))

\* url.Parse: the fragment is cut off first and set last
setFragment(url, frag) ==
  IF ~url.ok THEN url
  ELSE IF frag = EmptyString THEN url
  ELSE IF ~unescape(frag, "encodeFragment").ok THEN URLError
  ELSE url
CutFragment(rawURL, h) ==
  setFragment(urlparse(IF h < 0 THEN rawURL ELSE SubSeq(rawURL, 1, h)),
              IF h < 0 THEN EmptyString
              ELSE SubSeq(rawURL, h + 2, Len(rawURL)))
URLParse(rawURL) == CutFragment(rawURL, Index(rawURL, <<"#">>))

---------------------------------------------------------------------------
(* nameWithOwnerFromGitURL                                                 *)

\* whether the regular expression github.com[:/] matches at 1-based
\* position i ("." matches any character but a newline)
GithubHostAt(s, i) ==
  /\ i + 10 <= Len(s)
  /\ SubSeq(s, i, i + 5) = <<"g","i","t","h","u","b">>
  /\ s[i + 6] # "\n"
  /\ SubSeq(s, i + 7, i + 9) = <<"c","o","m">>
  /\ s[i + 10] \in {":", "/"}

\* what (.*) captures from position i on: everything up to a newline
RECURSIVE DotStar(_, _)
DotStar(s, i) ==
  IF i > Len(s) \/ s[i] = "\n" THEN EmptyString
  ELSE <<s[i]>> \o DotStar(s, i + 1)

\* regexp.FindStringSubmatch for `github.com[:/](.*)`: the empty sequence
\* when nothing matches, else <<whole match, group 1>> of the leftmost match
FindStringSubmatch(s) ==
  LET hits == {i \in 1..Len(s) : GithubHostAt(s, i)}
  IN IF hits = {} THEN <<>>
     ELSE LET i == CHOOSE k \in hits : \A j \in hits : k <= j
              g == DotStar(s, i + 11)
          IN <<SubSeq(s, i, i + 10) \o g, g>>

NoError == <<>>

\* fmt.Errorf("unable to extract repository name-with-owner from URL: %s", url)
MalformedURLError(url) == <<"unable to extract repository name-with-owner from URL", url>>

nameWithOwnerFromGitURL(url) ==
  LET matches == FindStringSubmatch(url)
  IN IF Len(matches) # 2
     THEN [nwo |-> EmptyString, err |-> MalformedURLError(url)]
     ELSE [nwo |-> TrimSuffix(matches[2], sDotGit), err |-> NoError]

---------------------------------------------------------------------------
(* The provider variants' structs: one row per field that carries struct   *)
(* tags (go: field name, env: the variable of the env tag or "" without    *)
(* one, typ: the Go type, key: the yaml key or "-", omitempty / notEmpty:  *)
(* the tag options).                                                       *)

\* struct buildkiteMetadata
buildkiteFields ==
  <<
    [go |-> "BuildkiteBranch", env |-> "BUILDKITE_BRANCH", typ |-> "string", key |-> "-", omitempty |-> FALSE, notEmpty |-> FALSE],
    [go |-> "BuildkiteBuildID", env |-> "BUILDKITE_BUILD_ID", typ |-> "string", key |-> ":buildkite_build_id", omitempty |-> FALSE, notEmpty |-> FALSE],
    [go |-> "BuildkiteBuildNumber", env |-> "BUILDKITE_BUILD_NUMBER", typ |-> "uint64", key |-> ":buildkite_build_number", omitempty |-> FALSE, notEmpty |-> FALSE],
    [go |-> "BuildkiteBuildURL", env |-> "BUILDKITE_BUILD_URL", typ |-> "string", key |-> "-", omitempty |-> FALSE, notEmpty |-> FALSE],
    [go |-> "BuildkiteCommit", env |-> "BUILDKITE_COMMIT", typ |-> "string", key |-> "-", omitempty |-> FALSE, notEmpty |-> FALSE],
    [go |-> "BuildkiteJobID", env |-> "BUILDKITE_JOB_ID", typ |-> "string", key |-> ":buildkite_job_id", omitempty |-> FALSE, notEmpty |-> FALSE],
    [go |-> "BuildkiteLabel", env |-> "BUILDKITE_LABEL", typ |-> "string", key |-> ":buildkite_label", omitempty |-> FALSE, notEmpty |-> FALSE],
    [go |-> "BuildkiteOrganizationSlug", env |-> "BUILDKITE_ORGANIZATION_SLUG", typ |-> "string", key |-> ":buildkite_organization_slug", omitempty |-> FALSE, notEmpty |-> FALSE],
    [go |-> "BuildkitePipelineID", env |-> "BUILDKITE_PIPELINE_ID", typ |-> "string", key |-> ":buildkite_pipeline_id", omitempty |-> FALSE, notEmpty |-> FALSE],
    [go |-> "BuildkitePipelineSlug", env |-> "BUILDKITE_PIPELINE_SLUG", typ |-> "string", key |-> ":buildkite_pipeline_slug", omitempty |-> FALSE, notEmpty |-> FALSE],
    [go |-> "BuildkiteProjectSlug", env |-> "BUILDKITE_PROJECT_SLUG", typ |-> "string", key |-> ":buildkite_project_slug", omitempty |-> FALSE, notEmpty |-> FALSE],
    [go |-> "BuildkitePullRequest", env |-> "BUILDKITE_PULL_REQUEST", typ |-> "string", key |-> "-", omitempty |-> FALSE, notEmpty |-> FALSE],
    [go |-> "BuildkitePullRequestBaseBranch", env |-> "BUILDKITE_PULL_REQUEST_BASE_BRANCH", typ |-> "string", key |-> ":buildkite_pull_request_base_branch", omitempty |-> TRUE, notEmpty |-> FALSE],
    [go |-> "BuildkitePullRequestNumber", env |-> "", typ |-> "uint", key |-> ":buildkite_pull_request_number", omitempty |-> TRUE, notEmpty |-> FALSE],
    [go |-> "BuildkitePullRequestRepo", env |-> "BUILDKITE_PULL_REQUEST_REPO", typ |-> "string", key |-> ":buildkite_pull_request_repo", omitempty |-> TRUE, notEmpty |-> FALSE],
    [go |-> "BuildkiteRebuiltFromBuildID", env |-> "BUILDKITE_REBUILT_FROM_BUILD_ID", typ |-> "string", key |-> ":buildkite_rebuilt_from_build_id", omitempty |-> TRUE, notEmpty |-> FALSE],
    [go |-> "BuildkiteRebuiltFromBuildNumber", env |-> "BUILDKITE_REBUILT_FROM_BUILD_NUMBER", typ |-> "uint64", key |-> ":buildkite_rebuilt_from_build_number", omitempty |-> TRUE, notEmpty |-> FALSE],
    [go |-> "BuildkiteRepoURL", env |-> "BUILDKITE_REPO", typ |-> "string", key |-> "-", omitempty |-> FALSE, notEmpty |-> FALSE],
    [go |-> "BuildkiteRetryCount", env |-> "BUILDKITE_RETRY_COUNT", typ |-> "uint", key |-> ":buildkite_retry_count", omitempty |-> FALSE, notEmpty |-> FALSE],
    [go |-> "BuildkiteTag", env |-> "BUILDKITE_TAG", typ |-> "string", key |-> ":buildkite_tag", omitempty |-> TRUE, notEmpty |-> FALSE]
  >>

\* struct circleMetadata
circleFields ==
  <<
    [go |-> "CircleBranch", env |-> "CIRCLE_BRANCH", typ |-> "string", key |-> "-", omitempty |-> FALSE, notEmpty |-> FALSE],
    [go |-> "CircleBuildNumber", env |-> "CIRCLE_BUILD_NUM", typ |-> "uint64", key |-> ":circle_build_num", omitempty |-> FALSE, notEmpty |-> FALSE],
    [go |-> "CircleBuildURL", env |-> "CIRCLE_BUILD_URL", typ |-> "string", key |-> "-", omitempty |-> FALSE, notEmpty |-> FALSE],
    [go |-> "CircleJob", env |-> "CIRCLE_JOB", typ |-> "string", key |-> ":circle_job", omitempty |-> FALSE, notEmpty |-> FALSE],
    [go |-> "CircleProjectReponame", env |-> "CIRCLE_PROJECT_REPONAME", typ |-> "string", key |-> "-", omitempty |-> FALSE, notEmpty |-> FALSE],
    [go |-> "CircleProjectUsername", env |-> "CIRCLE_PROJECT_USERNAME", typ |-> "string", key |-> "-", omitempty |-> FALSE, notEmpty |-> FALSE],
    [go |-> "CirclePullRequestNumber", env |-> "CIRCLE_PR_NUMBER", typ |-> "uint", key |-> ":circle_pr_number", omitempty |-> TRUE, notEmpty |-> FALSE],
    [go |-> "CirclePullRequestReponame", env |-> "CIRCLE_PR_REPONAME", typ |-> "string", key |-> ":circle_pr_reponame", omitempty |-> TRUE, notEmpty |-> FALSE],
    [go |-> "CirclePullRequestURL", env |-> "CIRCLE_PULL_REQUEST", typ |-> "string", key |-> ":circle_pull_request", omitempty |-> TRUE, notEmpty |-> FALSE],
    [go |-> "CirclePullRequestUsername", env |-> "CIRCLE_PR_USERNAME", typ |-> "string", key |-> ":circle_pr_username", omitempty |-> TRUE, notEmpty |-> FALSE],
    [go |-> "CircleRepoURL", env |-> "CIRCLE_REPOSITORY_URL", typ |-> "string", key |-> ":circle_repository_url", omitempty |-> FALSE, notEmpty |-> FALSE],
    [go |-> "CircleSHA1", env |-> "CIRCLE_SHA1", typ |-> "string", key |-> "-", omitempty |-> FALSE, notEmpty |-> FALSE],
    [go |-> "CircleTag", env |-> "CIRCLE_TAG", typ |-> "string", key |-> ":circle_tag", omitempty |-> TRUE, notEmpty |-> FALSE],
    [go |-> "CircleUsername", env |-> "CIRCLE_USERNAME", typ |-> "string", key |-> ":circle_username", omitempty |-> FALSE, notEmpty |-> FALSE],
    [go |-> "CircleWorkflowID", env |-> "CIRCLE_WORKFLOW_ID", typ |-> "string", key |-> ":circle_workflow_id", omitempty |-> FALSE, notEmpty |-> FALSE]
  >>

\* struct githubMetadata
githubFields ==
  <<
    [go |-> "GithubActor", env |-> "GITHUB_ACTOR", typ |-> "string", key |-> ":github_actor", omitempty |-> FALSE, notEmpty |-> FALSE],
    [go |-> "GithubBaseRef", env |-> "GITHUB_BASE_REF", typ |-> "string", key |-> ":github_base_ref", omitempty |-> FALSE, notEmpty |-> FALSE],
    [go |-> "GithubEventName", env |-> "GITHUB_EVENT_NAME", typ |-> "string", key |-> ":github_event_name", omitempty |-> FALSE, notEmpty |-> FALSE],
    [go |-> "GithubHeadRef", env |-> "GITHUB_HEAD_REF", typ |-> "string", key |-> ":github_head_ref", omitempty |-> FALSE, notEmpty |-> FALSE],
    [go |-> "GithubRef", env |-> "GITHUB_REF", typ |-> "string", key |-> ":github_ref", omitempty |-> FALSE, notEmpty |-> FALSE],
    [go |-> "GithubRepoNWO", env |-> "GITHUB_REPOSITORY", typ |-> "string", key |-> "-", omitempty |-> FALSE, notEmpty |-> FALSE],
    [go |-> "GithubRepoURL", env |-> "", typ |-> "string", key |-> ":github_repo_url", omitempty |-> FALSE, notEmpty |-> FALSE],
    [go |-> "GithubRunAttempt", env |-> "GITHUB_RUN_ATTEMPT", typ |-> "uint", key |-> ":github_run_attempt", omitempty |-> FALSE, notEmpty |-> FALSE],
    [go |-> "GithubRunID", env |-> "GITHUB_RUN_ID", typ |-> "uint64", key |-> ":github_run_id", omitempty |-> FALSE, notEmpty |-> FALSE],
    [go |-> "GithubRunNumber", env |-> "GITHUB_RUN_NUMBER", typ |-> "uint", key |-> ":github_run_number", omitempty |-> FALSE, notEmpty |-> FALSE],
    [go |-> "GithubServerURL", env |-> "GITHUB_SERVER_URL", typ |-> "string", key |-> "-", omitempty |-> FALSE, notEmpty |-> FALSE],
    [go |-> "GithubSHA", env |-> "GITHUB_SHA", typ |-> "string", key |-> "-", omitempty |-> FALSE, notEmpty |-> FALSE],
    [go |-> "GithubWorkflow", env |-> "GITHUB_WORKFLOW", typ |-> "string", key |-> ":github_workflow", omitempty |-> FALSE, notEmpty |-> FALSE]
  >>

\* struct jenkinsMetadata
jenkinsFields ==
  <<
    [go |-> "GitBranch", env |-> "GIT_BRANCH", typ |-> "string", key |-> "-", omitempty |-> FALSE, notEmpty |-> FALSE],
    [go |-> "GitCommit", env |-> "GIT_COMMIT", typ |-> "string", key |-> "-", omitempty |-> FALSE, notEmpty |-> FALSE],
    [go |-> "GitURL", env |-> "GIT_URL", typ |-> "string", key |-> "-", omitempty |-> FALSE, notEmpty |-> FALSE],
    [go |-> "JenkinsExecutorNumber", env |-> "EXECUTOR_NUMBER", typ |-> "uint64", key |-> ":jenkins_executor_number", omitempty |-> FALSE, notEmpty |-> FALSE],
    [go |-> "JenkinsJobName", env |-> "JOB_NAME", typ |-> "string", key |-> ":jenkins_job_name", omitempty |-> FALSE, notEmpty |-> FALSE],
    [go |-> "JenkinsJobURL", env |-> "JOB_URL", typ |-> "string", key |-> ":jenkins_job_url", omitempty |-> FALSE, notEmpty |-> FALSE],
    [go |-> "JenkinsNodeName", env |-> "NODE_NAME", typ |-> "string", key |-> ":jenkins_node_name", omitempty |-> FALSE, notEmpty |-> FALSE],
    [go |-> "JenkinsWorkspace", env |-> "WORKSPACE", typ |-> "string", key |-> ":jenkins_workspace", omitempty |-> FALSE, notEmpty |-> FALSE]
  >>

\* struct semaphoreMetadata
semaphoreFields ==
  <<
    [go |-> "SemaphoreAgentMachineEnvironmentType", env |-> "SEMAPHORE_AGENT_MACHINE_ENVIRONMENT_TYPE", typ |-> "string", key |-> ":semaphore_agent_machine_environment_type", omitempty |-> FALSE, notEmpty |-> FALSE],
    [go |-> "SemaphoreAgentMachineOsImage", env |-> "SEMAPHORE_AGENT_MACHINE_OS_IMAGE", typ |-> "string", key |-> ":semaphore_agent_machine_os_image", omitempty |-> FALSE, notEmpty |-> FALSE],
    [go |-> "SemaphoreAgentMachineType", env |-> "SEMAPHORE_AGENT_MACHINE_TYPE", typ |-> "string", key |-> ":semaphore_agent_machine_type", omitempty |-> FALSE, notEmpty |-> FALSE],
    [go |-> "SemaphoreGitBranch", env |-> "SEMAPHORE_GIT_BRANCH", typ |-> "string", key |-> "-", omitempty |-> FALSE, notEmpty |-> FALSE],
    [go |-> "SemaphoreGitCommitRange", env |-> "SEMAPHORE_GIT_COMMIT_RANGE", typ |-> "string", key |-> ":semaphore_git_commit_range", omitempty |-> FALSE, notEmpty |-> FALSE],
    [go |-> "SemaphoreGitDir", env |-> "SEMAPHORE_GIT_DIR", typ |-> "string", key |-> ":semaphore_git_dir", omitempty |-> FALSE, notEmpty |-> FALSE],
    [go |-> "SemaphoreGitRef", env |-> "SEMAPHORE_GIT_REF", typ |-> "string", key |-> ":semaphore_git_ref", omitempty |-> FALSE, notEmpty |-> FALSE],
    [go |-> "SemaphoreGitRefType", env |-> "SEMAPHORE_GIT_REF_TYPE", typ |-> "string", key |-> ":semaphore_git_ref_type", omitempty |-> FALSE, notEmpty |-> FALSE],
    [go |-> "SemaphoreGitRepoSlug", env |-> "SEMAPHORE_GIT_REPO_SLUG", typ |-> "string", key |-> "-", omitempty |-> FALSE, notEmpty |-> FALSE],
    [go |-> "SemaphoreGitSHA", env |-> "SEMAPHORE_GIT_SHA", typ |-> "string", key |-> "-", omitempty |-> FALSE, notEmpty |-> FALSE],
    [go |-> "SemaphoreGitURL", env |-> "SEMAPHORE_GIT_URL", typ |-> "string", key |-> ":semaphore_git_url", omitempty |-> FALSE, notEmpty |-> FALSE],
    [go |-> "SemaphoreJobID", env |-> "SEMAPHORE_JOB_ID", typ |-> "string", key |-> ":semaphore_job_id", omitempty |-> FALSE, notEmpty |-> FALSE],
    [go |-> "SemaphoreJobName", env |-> "SEMAPHORE_JOB_NAME", typ |-> "string", key |-> ":semaphore_job_name", omitempty |-> FALSE, notEmpty |-> FALSE],
    [go |-> "SemaphoreJobResult", env |-> "SEMAPHORE_JOB_RESULT", typ |-> "string", key |-> ":semaphore_job_result", omitempty |-> FALSE, notEmpty |-> FALSE],
    [go |-> "SemaphoreOrganizationURL", env |-> "SEMAPHORE_ORGANIZATION_URL", typ |-> "string", key |-> ":semaphore_organization_url", omitempty |-> FALSE, notEmpty |-> FALSE],
    [go |-> "SemaphoreProjectID", env |-> "SEMAPHORE_PROJECT_ID", typ |-> "string", key |-> ":semaphore_project_id", omitempty |-> FALSE, notEmpty |-> FALSE],
    [go |-> "SemaphoreProjectName", env |-> "SEMAPHORE_PROJECT_NAME", typ |-> "string", key |-> ":semaphore_project_name", omitempty |-> FALSE, notEmpty |-> FALSE],
    [go |-> "SemaphoreWorkflowID", env |-> "SEMAPHORE_WORKFLOW_ID", typ |-> "string", key |-> ":semaphore_workflow_id", omitempty |-> FALSE, notEmpty |-> FALSE],
    [go |-> "SemaphoreWorkflowNumber", env |-> "SEMAPHORE_WORKFLOW_NUMBER", typ |-> "uint64", key |-> ":semaphore_workflow_number", omitempty |-> FALSE, notEmpty |-> FALSE]
  >>

\* struct travisMetadata
travisFields ==
  <<
    [go |-> "TravisBranch", env |-> "TRAVIS_BRANCH", typ |-> "string", key |-> "-", omitempty |-> FALSE, notEmpty |-> FALSE],
    [go |-> "TravisBuildDir", env |-> "TRAVIS_BUILD_DIR", typ |-> "string", key |-> ":travis_build_dir", omitempty |-> FALSE, notEmpty |-> FALSE],
    [go |-> "TravisBuildID", env |-> "TRAVIS_BUILD_ID", typ |-> "uint64", key |-> ":travis_build_id", omitempty |-> FALSE, notEmpty |-> FALSE],
    [go |-> "TravisBuildNumber", env |-> "TRAVIS_BUILD_NUMBER", typ |-> "uint64", key |-> ":travis_build_number", omitempty |-> FALSE, notEmpty |-> FALSE],
    [go |-> "TravisBuildWebURL", env |-> "TRAVIS_BUILD_WEB_URL", typ |-> "string", key |-> ":travis_build_web_url", omitempty |-> FALSE, notEmpty |-> FALSE],
    [go |-> "TravisCommit", env |-> "TRAVIS_COMMIT", typ |-> "string", key |-> "-", omitempty |-> FALSE, notEmpty |-> FALSE],
    [go |-> "TravisCommitRange", env |-> "TRAVIS_COMMIT_RANGE", typ |-> "string", key |-> ":travis_commit_range", omitempty |-> FALSE, notEmpty |-> FALSE],
    [go |-> "TravisCPUArch", env |-> "TRAVIS_CPU_ARCH", typ |-> "string", key |-> ":travis_cpu_arch", omitempty |-> FALSE, notEmpty |-> FALSE],
    [go |-> "TravisDist", env |-> "TRAVIS_DIST", typ |-> "string", key |-> ":travis_dist", omitempty |-> FALSE, notEmpty |-> FALSE],
    [go |-> "TravisEventType", env |-> "TRAVIS_EVENT_TYPE", typ |-> "string", key |-> ":travis_event_type", omitempty |-> FALSE, notEmpty |-> FALSE],
    [go |-> "TravisJobID", env |-> "TRAVIS_JOB_ID", typ |-> "uint64", key |-> ":travis_job_id", omitempty |-> FALSE, notEmpty |-> FALSE],
    [go |-> "TravisJobName", env |-> "TRAVIS_JOB_NAME", typ |-> "string", key |-> ":travis_job_name", omitempty |-> FALSE, notEmpty |-> FALSE],
    [go |-> "TravisJobNumber", env |-> "TRAVIS_JOB_NUMBER", typ |-> "string", key |-> ":travis_job_number", omitempty |-> FALSE, notEmpty |-> FALSE],
    [go |-> "TravisJobWebURL", env |-> "TRAVIS_JOB_WEB_URL", typ |-> "string", key |-> "-", omitempty |-> FALSE, notEmpty |-> FALSE],
    [go |-> "TravisOsName", env |-> "TRAVIS_OS_NAME", typ |-> "string", key |-> ":travis_os_name", omitempty |-> FALSE, notEmpty |-> FALSE],
    [go |-> "TravisPullRequest", env |-> "TRAVIS_PULL_REQUEST", typ |-> "string", key |-> "-", omitempty |-> FALSE, notEmpty |-> FALSE],
    [go |-> "TravisPullRequestBranch", env |-> "TRAVIS_PULL_REQUEST_BRANCH", typ |-> "string", key |-> ":travis_pull_request_branch", omitempty |-> TRUE, notEmpty |-> FALSE],
    [go |-> "TravisPullRequestNumber", env |-> "", typ |-> "uint", key |-> ":travis_pull_request_number", omitempty |-> TRUE, notEmpty |-> FALSE],
    [go |-> "TravisPullRequestSha", env |-> "TRAVIS_PULL_REQUEST_SHA", typ |-> "string", key |-> ":travis_pull_request_sha", omitempty |-> TRUE, notEmpty |-> FALSE],
    [go |-> "TravisPullRequestSlug", env |-> "TRAVIS_PULL_REQUEST_SLUG", typ |-> "string", key |-> ":travis_pull_request_slug", omitempty |-> TRUE, notEmpty |-> FALSE],
    [go |-> "TravisRepoSlug", env |-> "TRAVIS_REPO_SLUG", typ |-> "string", key |-> "-", omitempty |-> FALSE, notEmpty |-> FALSE],
    [go |-> "TravisSudo", env |-> "TRAVIS_SUDO", typ |-> "bool", key |-> ":travis_sudo", omitempty |-> FALSE, notEmpty |-> FALSE],
    [go |-> "TravisTag", env |-> "TRAVIS_TAG", typ |-> "string", key |-> ":travis_tag", omitempty |-> FALSE, notEmpty |-> FALSE],
    [go |-> "TravisTestResult", env |-> "TRAVIS_TEST_RESULT", typ |-> "uint", key |-> ":travis_test_result", omitempty |-> FALSE, notEmpty |-> FALSE]
  >>

\* struct webappioMetadata
webappioFields ==
  <<
    [go |-> "GitBranch", env |-> "GIT_BRANCH", typ |-> "string", key |-> "-", omitempty |-> FALSE, notEmpty |-> FALSE],
    [go |-> "GitCommit", env |-> "GIT_COMMIT", typ |-> "string", key |-> "-", omitempty |-> FALSE, notEmpty |-> FALSE],
    [go |-> "JobID", env |-> "JOB_ID", typ |-> "uint64", key |-> "-", omitempty |-> FALSE, notEmpty |-> FALSE],
    [go |-> "PullRequestURL", env |-> "PULL_REQUEST_URL", typ |-> "string", key |-> ":pull_request_url", omitempty |-> TRUE, notEmpty |-> FALSE],
    [go |-> "OrganizationName", env |-> "ORGANIZATION_NAME", typ |-> "string", key |-> "-", omitempty |-> FALSE, notEmpty |-> FALSE],
    [go |-> "RepositoryName", env |-> "REPOSITORY_NAME", typ |-> "string", key |-> "-", omitempty |-> FALSE, notEmpty |-> FALSE],
    [go |-> "RepositoryOwner", env |-> "REPOSITORY_OWNER", typ |-> "string", key |-> "-", omitempty |-> FALSE, notEmpty |-> FALSE],
    [go |-> "RetryIndex", env |-> "RETRY_INDEX", typ |-> "uint", key |-> ":retry_index", omitempty |-> FALSE, notEmpty |-> FALSE],
    [go |-> "RunnerID", env |-> "RUNNER_ID", typ |-> "string", key |-> "-", omitempty |-> FALSE, notEmpty |-> FALSE]
  >>

\* struct awsCodeBuildMetadata
awsCodeBuildFields ==
  <<
    [go |-> "AwsDefaultRegion", env |-> "AWS_DEFAULT_REGION", typ |-> "string", key |-> ":aws_default_region", omitempty |-> TRUE, notEmpty |-> FALSE],
    [go |-> "AwsRegion", env |-> "AWS_REGION", typ |-> "string", key |-> ":aws_region", omitempty |-> TRUE, notEmpty |-> FALSE],
    [go |-> "CodebuildBatchBuildIdentifier", env |-> "CODEBUILD_BATCH_BUILD_IDENTIFIER", typ |-> "string", key |-> ":codebuild_batch_build_identifier", omitempty |-> TRUE, notEmpty |-> FALSE],
    [go |-> "CodebuildBuildARN", env |-> "CODEBUILD_BUILD_ARN", typ |-> "string", key |-> ":codebuild_build_arn", omitempty |-> TRUE, notEmpty |-> FALSE],
    [go |-> "CodebuildBuildID", env |-> "CODEBUILD_BUILD_ID", typ |-> "string", key |-> ":codebuild_build_id", omitempty |-> TRUE, notEmpty |-> FALSE],
    [go |-> "CodebuildBuildImage", env |-> "CODEBUILD_BUILD_IMAGE", typ |-> "string", key |-> ":codebuild_build_image", omitempty |-> TRUE, notEmpty |-> FALSE],
    [go |-> "CodebuildBuildNumber", env |-> "CODEBUILD_BUILD_NUMBER", typ |-> "uint64", key |-> ":codebuild_build_number", omitempty |-> TRUE, notEmpty |-> FALSE],
    [go |-> "CodebuildBuildSucceeding", env |-> "CODEBUILD_BUILD_SUCCEEDING", typ |-> "uint", key |-> ":codebuild_build_succeeding", omitempty |-> TRUE, notEmpty |-> FALSE],
    [go |-> "CodebuildInitiator", env |-> "CODEBUILD_INITIATOR", typ |-> "string", key |-> ":codebuild_initiator", omitempty |-> TRUE, notEmpty |-> FALSE],
    [go |-> "CodebuildKmsKeyID", env |-> "CODEBUILD_KMS_KEY_ID", typ |-> "string", key |-> ":codebuild_kms_key_id", omitempty |-> TRUE, notEmpty |-> FALSE],
    [go |-> "CodebuildLogPath", env |-> "CODEBUILD_LOG_PATH", typ |-> "string", key |-> ":codebuild_log_path", omitempty |-> TRUE, notEmpty |-> FALSE],
    [go |-> "CodebuildPublicBuildURL", env |-> "CODEBUILD_PUBLIC_BUILD_URL", typ |-> "string", key |-> ":codebuild_public_build_url", omitempty |-> FALSE, notEmpty |-> FALSE],
    [go |-> "CodebuildResolvedSourceVersion", env |-> "CODEBUILD_RESOLVED_SOURCE_VERSION", typ |-> "string", key |-> ":codebuild_resolved_source_version", omitempty |-> FALSE, notEmpty |-> FALSE],
    [go |-> "CodebuildSourceRepoURL", env |-> "CODEBUILD_SOURCE_REPO_URL", typ |-> "string", key |-> ":codebuild_source_repo_url", omitempty |-> TRUE, notEmpty |-> FALSE],
    [go |-> "CodebuildSourceVersion", env |-> "CODEBUILD_SOURCE_VERSION", typ |-> "string", key |-> ":codebuild_source_version", omitempty |-> FALSE, notEmpty |-> FALSE],
    [go |-> "CodebuildSrcDir", env |-> "CODEBUILD_SRC_DIR", typ |-> "string", key |-> ":codebuild_src_dir", omitempty |-> TRUE, notEmpty |-> FALSE],
    [go |-> "CodebuildStartTime", env |-> "CODEBUILD_START_TIME", typ |-> "string", key |-> ":codebuild_start_time", omitempty |-> TRUE, notEmpty |-> FALSE],
    [go |-> "CodebuildWebhookActorAccountID", env |-> "CODEBUILD_WEBHOOK_ACTOR_ACCOUNT_ID", typ |-> "string", key |-> ":codebuild_webhook_actor_account_id", omitempty |-> TRUE, notEmpty |-> FALSE],
    [go |-> "CodebuildWebhookBaseRef", env |-> "CODEBUILD_WEBHOOK_BASE_REF", typ |-> "string", key |-> ":codebuild_webhook_base_ref", omitempty |-> TRUE, notEmpty |-> FALSE],
    [go |-> "CodebuildWebhookEvent", env |-> "CODEBUILD_WEBHOOK_EVENT", typ |-> "string", key |-> ":codebuild_webhook_event", omitempty |-> TRUE, notEmpty |-> FALSE],
    [go |-> "CodebuildWebhookMergeCommit", env |-> "CODEBUILD_WEBHOOK_MERGE_COMMIT", typ |-> "string", key |-> ":codebuild_webhook_merge_commit", omitempty |-> TRUE, notEmpty |-> FALSE],
    [go |-> "CodebuildWebhookPrevCommit", env |-> "CODEBUILD_WEBHOOK_PREV_COMMIT", typ |-> "string", key |-> ":codebuild_webhook_prev_commit", omitempty |-> TRUE, notEmpty |-> FALSE],
    [go |-> "CodebuildWebhookHeadRef", env |-> "CODEBUILD_WEBHOOK_HEAD_REF", typ |-> "string", key |-> ":codebuild_webhook_head_ref", omitempty |-> TRUE, notEmpty |-> FALSE],
    [go |-> "CodebuildWebhookTrigger", env |-> "CODEBUILD_WEBHOOK_TRIGGER", typ |-> "string", key |-> ":codebuild_webhook_trigger", omitempty |-> TRUE, notEmpty |-> FALSE]
  >>

\* struct bitbucketMetadata
bitbucketFields ==
  <<
    [go |-> "BitbucketBuildNumber", env |-> "BITBUCKET_BUILD_NUMBER", typ |-> "uint64", key |-> ":bitbucket_build_number", omitempty |-> FALSE, notEmpty |-> FALSE],
    [go |-> "BitbucketCloneDir", env |-> "BITBUCKET_CLONE_DIR", typ |-> "string", key |-> ":bitbucket_clone_dir", omitempty |-> TRUE, notEmpty |-> FALSE],
    [go |-> "BitbucketCommit", env |-> "BITBUCKET_COMMIT", typ |-> "string", key |-> ":bitbucket_commit", omitempty |-> FALSE, notEmpty |-> FALSE],
    [go |-> "BitbucketWorkspace", env |-> "BITBUCKET_WORKSPACE", typ |-> "string", key |-> ":bitbucket_workspace", omitempty |-> FALSE, notEmpty |-> FALSE],
    [go |-> "BitbucketRepoSlug", env |-> "BITBUCKET_REPO_SLUG", typ |-> "string", key |-> ":bitbucket_repo_slug", omitempty |-> FALSE, notEmpty |-> FALSE],
    [go |-> "BitbucketRepoUUID", env |-> "BITBUCKET_REPO_UUID", typ |-> "string", key |-> ":bitbucket_repo_uuid", omitempty |-> TRUE, notEmpty |-> FALSE],
    [go |-> "BitbucketRepoFullName", env |-> "BITBUCKET_REPO_FULL_NAME", typ |-> "string", key |-> ":bitbucket_repo_full_name", omitempty |-> TRUE, notEmpty |-> FALSE],
    [go |-> "BitbucketBranch", env |-> "BITBUCKET_BRANCH", typ |-> "string", key |-> ":bitbucket_branch", omitempty |-> FALSE, notEmpty |-> FALSE],
    [go |-> "BitbucketTag", env |-> "BITBUCKET_TAG", typ |-> "string", key |-> ":bitbucket_tag", omitempty |-> TRUE, notEmpty |-> FALSE],
    [go |-> "BitbucketBookmark", env |-> "BITBUCKET_BOOKMARK", typ |-> "string", key |-> ":bitbucket_bookmark", omitempty |-> TRUE, notEmpty |-> FALSE],
    [go |-> "BitbucketParallelStep", env |-> "BITBUCKET_PARALLEL_STEP", typ |-> "string", key |-> ":bitbucket_parallel_step", omitempty |-> TRUE, notEmpty |-> FALSE],
    [go |-> "BitbucketParallelStepCount", env |-> "BITBUCKET_PARALLEL_STEP_COUNT", typ |-> "string", key |-> ":bitbucket_parallel_step_count", omitempty |-> TRUE, notEmpty |-> FALSE],
    [go |-> "BitbucketPrID", env |-> "BITBUCKET_PR_ID", typ |-> "string", key |-> ":bitbucket_pr_id", omitempty |-> TRUE, notEmpty |-> FALSE],
    [go |-> "BitbucketPrDestinationBranch", env |-> "BITBUCKET_PR_DESTINATION_BRANCH", typ |-> "string", key |-> ":bitbucket_pr_destination_branch", omitempty |-> TRUE, notEmpty |-> FALSE],
    [go |-> "BitbucketGitHTTPOrigin", env |-> "BITBUCKET_GIT_HTTP_ORIGIN", typ |-> "string", key |-> ":bitbucket_git_http_origin", omitempty |-> FALSE, notEmpty |-> FALSE],
    [go |-> "BitbucketGitSSHOrigin", env |-> "BITBUCKET_GIT_SSH_ORIGIN", typ |-> "string", key |-> ":bitbucket_git_ssh_origin", omitempty |-> TRUE, notEmpty |-> FALSE],
    [go |-> "BitbucketExitCode", env |-> "BITBUCKET_EXIT_CODE", typ |-> "string", key |-> ":bitbucket_exit_code", omitempty |-> TRUE, notEmpty |-> FALSE],
    [go |-> "BitbucketStepUUID", env |-> "BITBUCKET_STEP_UUID", typ |-> "string", key |-> ":bitbucket_step_uuid", omitempty |-> TRUE, notEmpty |-> FALSE],
    [go |-> "BitbucketPipelineUUID", env |-> "BITBUCKET_PIPELINE_UUID", typ |-> "string", key |-> ":bitbucket_pipeline_uuid", omitempty |-> TRUE, notEmpty |-> FALSE],
    [go |-> "BitbucketDeploymentEnvironment", env |-> "BITBUCKET_DEPLOYMENT_ENVIRONMENT", typ |-> "string", key |-> ":bitbucket_deployment_environment", omitempty |-> TRUE, notEmpty |-> FALSE],
    [go |-> "BitbucketDeploymentEnvironmentUUID", env |-> "BITBUCKET_DEPLOYMENT_ENVIRONMENT_UUID", typ |-> "string", key |-> ":bitbucket_deployment_environment_uuid", omitempty |-> TRUE, notEmpty |-> FALSE],
    [go |-> "BitbucketProjectKey", env |-> "BITBUCKET_PROJECT_KEY", typ |-> "string", key |-> ":bitbucket_project_key", omitempty |-> TRUE, notEmpty |-> FALSE],
    [go |-> "BitbucketProjectUUID", env |-> "BITBUCKET_PROJECT_UUID", typ |-> "string", key |-> ":bitbucket_project_uuid", omitempty |-> TRUE, notEmpty |-> FALSE],
    [go |-> "BitbucketStepTriggererUUID", env |-> "BITBUCKET_STEP_TRIGGERER_UUID", typ |-> "string", key |-> ":bitbucket_step_triggerer_uuid", omitempty |-> TRUE, notEmpty |-> FALSE],
    [go |-> "BitbucketStepOIDCToken", env |-> "BITBUCKET_STEP_OIDC_TOKEN", typ |-> "string", key |-> ":bitbucket_step_oidc_token", omitempty |-> TRUE, notEmpty |-> FALSE],
    [go |-> "BitbucketSSHKeyFile", env |-> "BITBUCKET_SSH_KEY_FILE", typ |-> "string", key |-> ":bitbucket_ssh_key_file", omitempty |-> TRUE, notEmpty |-> FALSE]
  >>

\* struct azurePipelinesMetadata
azurePipelinesFields ==
  <<
    [go |-> "BuildID", env |-> "BUILD_BUILDID", typ |-> "string", key |-> ":build_buildid", omitempty |-> TRUE, notEmpty |-> FALSE],
    [go |-> "BuildNumber", env |-> "BUILD_BUILDNUMBER", typ |-> "string", key |-> ":build_buildnumber", omitempty |-> TRUE, notEmpty |-> FALSE],
    [go |-> "BuildURI", env |-> "BUILD_BUILDURI", typ |-> "string", key |-> ":build_builduri", omitempty |-> FALSE, notEmpty |-> FALSE],
    [go |-> "BinariesDirectory", env |-> "BUILD_BINARIESDIRECTORY", typ |-> "string", key |-> ":build_binariesdirectory", omitempty |-> TRUE, notEmpty |-> FALSE],
    [go |-> "ContainerID", env |-> "BUILD_CONTAINERID", typ |-> "string", key |-> ":build_containerid", omitempty |-> TRUE, notEmpty |-> FALSE],
    [go |-> "DefinitionName", env |-> "BUILD_DEFINITIONNAME", typ |-> "string", key |-> ":build_definitionname", omitempty |-> TRUE, notEmpty |-> FALSE],
    [go |-> "DefinitionVersion", env |-> "BUILD_DEFINITIONVERSION", typ |-> "string", key |-> ":build_definitionversion", omitempty |-> TRUE, notEmpty |-> FALSE],
    [go |-> "QueuedBy", env |-> "BUILD_QUEUEDBY", typ |-> "string", key |-> ":build_queuedby", omitempty |-> TRUE, notEmpty |-> FALSE],
    [go |-> "QueuedByID", env |-> "BUILD_QUEUEDBYID", typ |-> "string", key |-> ":build_queuedbyid", omitempty |-> TRUE, notEmpty |-> FALSE],
    [go |-> "Reason", env |-> "BUILD_REASON", typ |-> "string", key |-> ":build_reason", omitempty |-> TRUE, notEmpty |-> FALSE],
    [go |-> "RepositoryClean", env |-> "BUILD_REPOSITORY_CLEAN", typ |-> "string", key |-> ":build_repository_clean", omitempty |-> TRUE, notEmpty |-> FALSE],
    [go |-> "RepositoryLocalpath", env |-> "BUILD_REPOSITORY_LOCALPATH", typ |-> "string", key |-> ":build_repository_localpath", omitempty |-> TRUE, notEmpty |-> FALSE],
    [go |-> "RepositoryID", env |-> "BUILD_REPOSITORY_ID", typ |-> "string", key |-> ":build_repository_id", omitempty |-> TRUE, notEmpty |-> FALSE],
    [go |-> "RepositoryName", env |-> "BUILD_REPOSITORY_NAME", typ |-> "string", key |-> ":build_repository_name", omitempty |-> FALSE, notEmpty |-> FALSE],
    [go |-> "RepositoryProvider", env |-> "BUILD_REPOSITORY_PROVIDER", typ |-> "string", key |-> ":build_repository_provider", omitempty |-> TRUE, notEmpty |-> FALSE],
    [go |-> "RepositoryTFVCWorkspace", env |-> "BUILD_REPOSITORY_TFVC_WORKSPACE", typ |-> "string", key |-> ":build_repository_tfvc_workspace", omitempty |-> TRUE, notEmpty |-> FALSE],
    [go |-> "RepositoryURI", env |-> "BUILD_REPOSITORY_URI", typ |-> "string", key |-> ":build_repository_uri", omitempty |-> TRUE, notEmpty |-> FALSE],
    [go |-> "RequestedForEmail", env |-> "BUILD_REQUESTEDFOREMAIL", typ |-> "string", key |-> ":build_requestedforemail", omitempty |-> TRUE, notEmpty |-> FALSE],
    [go |-> "RequestedForID", env |-> "BUILD_REQUESTEDFORID", typ |-> "string", key |-> ":build_requestedforid", omitempty |-> TRUE, notEmpty |-> FALSE],
    [go |-> "SourceBranch", env |-> "BUILD_SOURCEBRANCH", typ |-> "string", key |-> ":build_sourcebranch", omitempty |-> TRUE, notEmpty |-> FALSE],
    [go |-> "SourceBranchName", env |-> "BUILD_SOURCEBRANCHNAME", typ |-> "string", key |-> ":build_sourcebranchname", omitempty |-> FALSE, notEmpty |-> FALSE],
    [go |-> "SourcesDirectory", env |-> "BUILD_SOURCESDIRECTORY", typ |-> "string", key |-> ":build_sourcesdirectory", omitempty |-> TRUE, notEmpty |-> FALSE],
    [go |-> "SourceVersion", env |-> "BUILD_SOURCEVERSION", typ |-> "string", key |-> ":build_sourceversion", omitempty |-> FALSE, notEmpty |-> FALSE],
    [go |-> "SourceVersionMessage", env |-> "BUILD_SOURCEVERSIONMESSAGE", typ |-> "string", key |-> ":build_sourceversionmessage", omitempty |-> TRUE, notEmpty |-> FALSE],
    [go |-> "StagingDirectory", env |-> "BUILD_STAGINGDIRECTORY", typ |-> "string", key |-> ":build_stagingdirectory", omitempty |-> TRUE, notEmpty |-> FALSE],
    [go |-> "RepositoryGitSubmoduleCheckout", env |-> "BUILD_REPOSITORY_GIT_SUBMODULECHECKOUT", typ |-> "string", key |-> ":build_repository_git_submodulecheckout", omitempty |-> TRUE, notEmpty |-> FALSE],
    [go |-> "SourceTFVCShelveSet", env |-> "BUILD_SOURCETFVCSHELVESET", typ |-> "string", key |-> ":build_sourcetfvcshelveset", omitempty |-> TRUE, notEmpty |-> FALSE],
    [go |-> "TeamFoundationCollectionURI", env |-> "SYSTEM_TEAMFOUNDATIONCOLLECTIONURI", typ |-> "string", key |-> ":system_teamfoundationcollectionuri", omitempty |-> FALSE, notEmpty |-> FALSE],
    [go |-> "TriggeredByBuildID", env |-> "BUILD_TRIGGEREDBY_BUILDID", typ |-> "string", key |-> ":build_triggeredby_buildid", omitempty |-> TRUE, notEmpty |-> FALSE],
    [go |-> "TriggeredByDefinitionID", env |-> "BUILD_TRIGGEREDBY_DEFINITIONID", typ |-> "string", key |-> ":build_triggeredby_definitionid", omitempty |-> TRUE, notEmpty |-> FALSE],
    [go |-> "TriggeredByDefinitionName", env |-> "BUILD_TRIGGEREDBY_DEFINITIONNAME", typ |-> "string", key |-> ":build_triggeredby_definitionname", omitempty |-> TRUE, notEmpty |-> FALSE],
    [go |-> "TriggeredByBuildNumber", env |-> "BUILD_TRIGGEREDBY_BUILDNUMBER", typ |-> "string", key |-> ":build_triggeredby_buildnumber", omitempty |-> TRUE, notEmpty |-> FALSE],
    [go |-> "TriggeredByProjectID", env |-> "BUILD_TRIGGEREDBY_PROJECTID", typ |-> "string", key |-> ":build_triggeredby_projectid", omitempty |-> TRUE, notEmpty |-> FALSE]
  >>

\* struct customMetadata
customFields ==
  <<
    [go |-> "GitBranch", env |-> "GIT_BRANCH", typ |-> "string", key |-> ":git_branch", omitempty |-> FALSE, notEmpty |-> TRUE],
    [go |-> "GitCommit", env |-> "GIT_COMMIT", typ |-> "string", key |-> ":git_commit", omitempty |-> FALSE, notEmpty |-> TRUE],
    [go |-> "BuildURI", env |-> "BUILD_URL", typ |-> "string", key |-> ":build_url", omitempty |-> FALSE, notEmpty |-> TRUE],
    [go |-> "OrganizationName", env |-> "ORGANIZATION_NAME", typ |-> "string", key |-> ":organization_name", omitempty |-> FALSE, notEmpty |-> TRUE],
    [go |-> "RepositoryName", env |-> "REPOSITORY_NAME", typ |-> "string", key |-> ":repository_name", omitempty |-> FALSE, notEmpty |-> TRUE]
  >>

---------------------------------------------------------------------------
(* env.Parse (github.com/caarlos0/env/v6) over such a struct.              *)

\* the zero value of a Go type
Zero(typ) ==
  IF typ = "string" THEN EmptyString
  ELSE IF typ = "bool" THEN FALSE
  ELSE Uint(0)

\* the value env.Parse reads for a field: the variable's value, "" when the
\* variable is unset or the field has no env tag
RawValue(row, e) == IF row.env = "" THEN EmptyString ELSE Get(e, row.env)

\* the bitSize env.Parse passes to strconv.ParseUint for a field's type
BitSize(typ) == IF typ = "uint64" THEN 64 ELSE 32

\* newParseError(sf, err): the field, its type and the error of strconv,
\* which names the function, the value and the reason
ParseError(row, fn, v, reason) ==
  <<"parse error on field", row.go, row.typ, fn, v, reason>>

\* the outcome of env.Parse for a field, given the result n of ParseUint
UintField(row, v, n) ==
  IF n.ok THEN [err |-> NoError, val |-> n.val]
  ELSE [err |-> ParseError(row, "strconv.ParseUint", v, n.err),
        val |-> Uint(0)]

\* env.Parse of one field with a value that is not of the field's type
\* taken for the zero value instead of reported.
ParseFieldIgnoringType(row, e) ==
  LET v == RawValue(row, e)
  IN IF row.notEmpty /\ v = EmptyString
     THEN [err |-> <<"should not be empty", row.env>>, val |-> Zero(row.typ)]
     ELSE IF v = EmptyString THEN [err |-> NoError, val |-> Zero(row.typ)]
     ELSE IF row.typ = "string" THEN [err |-> NoError, val |-> v]
     ELSE IF row.typ = "bool"
          THEN [err |-> NoError, val |-> ParseBool(v).val]
     ELSE [err |-> NoError,
           val |-> IF ParseUint(v, 10, BitSize(row.typ)).ok
                   THEN ParseUint(v, 10, BitSize(row.typ)).val
                   ELSE Uint(0)]

\* env.Parse of one field: [err, val].  A notEmpty field whose variable is
\* unset or empty is an error; any other empty value leaves the field at
\* its zero value; a non-empty value is parsed to the field's type (uint64
\* with ParseUint(v, 10, 64), uint with ParseUint(v, 10, 32), bool with
\* ParseBool).
ParseField(row, e) ==
  LET v == RawValue(row, e)
  IN IF row.notEmpty /\ v = EmptyString
     THEN [err |-> <<"should not be empty", row.env>>, val |-> Zero(row.typ)]
     ELSE IF v = EmptyString THEN [err |-> NoError, val |-> Zero(row.typ)]
     ELSE IF row.typ = "string" THEN [err |-> NoError, val |-> v]
     ELSE IF row.typ = "bool"
          THEN IF ParseBool(v).ok
               THEN [err |-> NoError, val |-> ParseBool(v).val]
               ELSE [err |-> ParseError(row, "strconv.ParseBool", v,
                                        "invalid syntax"),
                     val |-> FALSE]
     ELSE UintField(row, v, ParseUint(v, 10, BitSize(row.typ)))

\* the errors of the fields i.., in field order
RECURSIVE FieldErrors(_, _, _)
FieldErrors(fields, e, i) ==
  IF i > Len(fields) THEN <<>>
  ELSE LET r == ParseField(fields[i], e)
       IN (IF r.err = NoError THEN <<>> ELSE <<r.err>>)
          \o FieldErrors(fields, e, i + 1)

\* the struct with every field at its zero value (&buildkiteMetadata{} ...)
ZeroStruct(fields) ==
  [name \in {fields[i].go : i \in 1..Len(fields)} |->
     Zero(fields[CHOOSE i \in 1..Len(fields) : fields[i].go = name].typ)]

\* env.Parse stopping at the first field in error instead of collecting the
\* errors of all fields.
EnvParseFirstError(fields, e) ==
  LET errs == FieldErrors(fields, e, 1)
  IN [f |-> ZeroStruct(fields),
      err |-> IF errs = <<>> THEN NoError ELSE <<"env", <<errs[1]>>>>]

\* env.Parse: [f: the struct's fields after the parse, err: NoError or the
\* aggregate error, printed "env: " followed by the errors joined by "; "]
EnvParse(fields, e) ==
  LET errs == FieldErrors(fields, e, 1)
  IN [f |-> [name \in {fields[i].go : i \in 1..Len(fields)} |->
               ParseField(fields[CHOOSE i \in 1..Len(fields) :
                                   fields[i].go = name], e).val],
      err |-> IF errs = <<>> THEN NoError ELSE <<"env", errs>>]

\* the message of one field's error; that of strconv's NumError quotes the
\* value parsed with strconv.Quote
FieldErrorText(x) ==
  IF x[1] = "should not be empty"
  THEN <<"environment variable \"", x[2], "\" should not be empty">>
  ELSE <<"parse error on field \"", x[2], "\" of type \"", x[3], "\": ",
         x[4], ": parsing ">> \o Quote(x[5]) \o <<": ", x[6]>>

\* AggregateError.Error(): "env: " followed by the messages joined by "; ",
\* as a sequence of pieces of text
RECURSIVE JoinErrorTexts(_)
JoinErrorTexts(errs) ==
  IF errs = <<>> THEN <<>>
  ELSE IF Len(errs) = 1 THEN FieldErrorText(errs[1])
  ELSE FieldErrorText(errs[1]) \o <<"; ">> \o JoinErrorTexts(Tail(errs))
AggregateErrorText(aggregate) == <<"env: ">> \o JoinErrorTexts(aggregate[2])


---------------------------------------------------------------------------
(* The provider variants.  A variant is [kind, f, nwo, branch, buildURL]:  *)
(* the struct type, its tagged fields and its unexported fields.  Init     *)
(* returns [pm, err, log]: the variant after Init, the error returned and  *)
(* the lines logged.                                                       *)

Kinds ==
  <<"buildkiteMetadata", "circleMetadata", "githubMetadata", "jenkinsMetadata",
    "semaphoreMetadata", "travisMetadata", "webappioMetadata",
    "awsCodeBuildMetadata", "bitbucketMetadata", "azurePipelinesMetadata",
    "customMetadata">>

FieldsOf(kind) ==
  CASE kind = "buildkiteMetadata" -> buildkiteFields
    [] kind = "circleMetadata" -> circleFields
    [] kind = "githubMetadata" -> githubFields
    [] kind = "jenkinsMetadata" -> jenkinsFields
    [] kind = "semaphoreMetadata" -> semaphoreFields
    [] kind = "travisMetadata" -> travisFields
    [] kind = "webappioMetadata" -> webappioFields
    [] kind = "awsCodeBuildMetadata" -> awsCodeBuildFields
    [] kind = "bitbucketMetadata" -> bitbucketFields
    [] kind = "azurePipelinesMetadata" -> azurePipelinesFields
    [] kind = "customMetadata" -> customFields

\* pm = &buildkiteMetadata{} and the like: every field zero
NewVariant(kind) ==
  [kind |-> kind, f |-> ZeroStruct(FieldsOf(kind)),
   nwo |-> EmptyString, branch |-> EmptyString, buildURL |-> EmptyString]

\* the variant whose tagged fields are f
Variant(kind, f) ==
  [kind |-> kind, f |-> f,
   nwo |-> EmptyString, branch |-> EmptyString, buildURL |-> EmptyString]

\* the log line "Using $<variable> environment variable as commit SHA: <value>"
CommitLog(variable, value) == <<"Using commit SHA variable", variable, value>>

\* what Init returns when it fails: the variant is dropped by the caller
InitFailed(kind, error, lines) ==
  [pm |-> NewVariant(kind), err |-> error, log |-> lines]

\* Every Init starts with env.Parse(x, env.Options{Environment: envs}) and
\* returns its error (ProviderInit below); the operators that follow are the
\* statements of each Init after a successful parse, f being the struct's
\* tagged fields as env.Parse left them.

buildkiteInit(f, e) ==
  LET kind == "buildkiteMetadata"
      lines == <<CommitLog("BUILDKITE_COMMIT", f.BuildkiteCommit)>>
      r == nameWithOwnerFromGitURL(f.BuildkiteRepoURL)
      prNum == ParseUint(f.BuildkitePullRequest, 0, 0)
  IN IF r.err # NoError THEN InitFailed(kind, r.err, lines)
     ELSE [pm |-> [Variant(kind, f) EXCEPT
                     !.nwo = r.nwo,
                     !.f.BuildkitePullRequestNumber =
                        IF prNum.ok THEN prNum.val ELSE @],
           err |-> NoError, log |-> lines]

circleInit(f, e) ==
  [pm |-> Variant("circleMetadata", f), err |-> NoError,
   log |-> <<CommitLog("CIRCLE_SHA1", f.CircleSHA1)>>]

\* fmt.Sprintf("%s/actions/runs/%d/attempts/%d", ...)
GithubBuildURL(repoURL, runID, runAttempt) ==
  repoURL \o <<"/","a","c","t","i","o","n","s","/","r","u","n","s","/">>
          \o FormatUint(runID)
          \o <<"/","a","t","t","e","m","p","t","s","/">> \o FormatUint(runAttempt)

\* The branch derivation with the ref examined before the event name.
GithubBranchRefFirst(eventName, ref, headRef) ==
  IF HasPrefix(ref, sRefsHeads) THEN TrimPrefix(ref, sRefsHeads)
  ELSE IF eventName = sPullRequest THEN headRef
  ELSE EmptyString

\* the branch githubMetadata.Init derives
GithubBranch(eventName, ref, headRef) ==
  IF eventName = sPullRequest THEN headRef
  \* regexp.MatchString("^refs/heads/", ref)
  ELSE IF HasPrefix(ref, sRefsHeads) THEN TrimPrefix(ref, sRefsHeads)
  ELSE EmptyString

\* g.GithubServerURL after the default is applied
GithubServerURL(serverURL) ==
  IF serverURL = EmptyString THEN sDefaultServerURL ELSE serverURL

githubInit(f, e) ==
  [pm |-> [Variant("githubMetadata", f) EXCEPT
             !.f.GithubServerURL = GithubServerURL(@),
             !.f.GithubRepoURL =
                SlashJoin(GithubServerURL(f.GithubServerURL), f.GithubRepoNWO),
             !.buildURL =
                GithubBuildURL(SlashJoin(GithubServerURL(f.GithubServerURL),
                                         f.GithubRepoNWO),
                               f.GithubRunID, f.GithubRunAttempt),
             !.branch = GithubBranch(f.GithubEventName, f.GithubRef,
                                     f.GithubHeadRef)],
   err |-> NoError,
   log |-> <<CommitLog("GITHUB_SHA", f.GithubSHA)>>]

\* jenkinsMetadata.Init with the name-with-owner taken from GIT_URL before
\* BUILD_URL is looked at.
jenkinsInitRemoteFirst(f, e) ==
  LET kind == "jenkinsMetadata"
      lines == <<CommitLog("GIT_COMMIT", f.GitCommit)>>
      r == nameWithOwnerFromGitURL(f.GitURL)
  IN IF r.err # NoError THEN InitFailed(kind, r.err, lines)
     ELSE IF "BUILD_URL" \notin DOMAIN e \/ Get(e, "BUILD_URL") = EmptyString
     THEN InitFailed(kind, <<"missing required environment variable", "BUILD_URL">>,
                     lines)
     ELSE [pm |-> [Variant(kind, f) EXCEPT !.buildURL = Get(e, "BUILD_URL"),
                                           !.nwo = r.nwo],
           err |-> NoError, log |-> lines]

jenkinsInit(f, e) ==
  LET kind == "jenkinsMetadata"
      lines == <<CommitLog("GIT_COMMIT", f.GitCommit)>>
      r == nameWithOwnerFromGitURL(f.GitURL)
  IN IF "BUILD_URL" \notin DOMAIN e \/ Get(e, "BUILD_URL") = EmptyString
     THEN InitFailed(kind, <<"missing required environment variable", "BUILD_URL">>,
                     lines)
     ELSE IF r.err # NoError THEN InitFailed(kind, r.err, lines)
     ELSE [pm |-> [Variant(kind, f) EXCEPT !.buildURL = Get(e, "BUILD_URL"),
                                           !.nwo = r.nwo],
           err |-> NoError, log |-> lines]

semaphoreInit(f, e) ==
  [pm |-> Variant("semaphoreMetadata", f), err |-> NoError,
   log |-> <<CommitLog("SEMAPHORE_GIT_SHA", f.SemaphoreGitSHA)>>]

travisInit(f, e) ==
  LET prNum == ParseUint(f.TravisPullRequest, 0, 0)
  IN [pm |-> [Variant("travisMetadata", f) EXCEPT
                !.f.TravisPullRequestNumber = IF prNum.ok THEN prNum.val ELSE @],
      err |-> NoError,
      log |-> <<CommitLog("TRAVIS_COMMIT", f.TravisCommit)>>]

webappioInit(f, e) ==
  [pm |-> Variant("webappioMetadata", f), err |-> NoError,
   log |-> <<CommitLog("GIT_COMMIT", f.GitCommit)>>]

awsCodeBuildInit(f, e) ==
  [pm |-> Variant("awsCodeBuildMetadata", f), err |-> NoError,
   log |-> <<CommitLog("GIT_COMMIT", f.CodebuildResolvedSourceVersion)>>]

bitbucketInit(f, e) ==
  [pm |-> Variant("bitbucketMetadata", f), err |-> NoError,
   log |-> <<CommitLog("GIT_COMMIT", f.BitbucketCommit)>>]

azurePipelinesInit(f, e) ==
  [pm |-> Variant("azurePipelinesMetadata", f), err |-> NoError,
   log |-> <<CommitLog("GIT_COMMIT", f.SourceVersion)>>]

customInit(f, e) ==
  [pm |-> Variant("customMetadata", f), err |-> NoError,
   log |-> <<CommitLog("GIT_COMMIT", f.GitCommit)>>]

\* the statements of pm.Init after env.Parse returned parsed
AfterParse(kind, parsed, e) ==
  IF parsed.err # NoError THEN InitFailed(kind, parsed.err, <<>>)
  ELSE CASE kind = "buildkiteMetadata" -> buildkiteInit(parsed.f, e)
         [] kind = "circleMetadata" -> circleInit(parsed.f, e)
         [] kind = "githubMetadata" -> githubInit(parsed.f, e)
         [] kind = "jenkinsMetadata" -> jenkinsInit(parsed.f, e)
         [] kind = "semaphoreMetadata" -> semaphoreInit(parsed.f, e)
         [] kind = "travisMetadata" -> travisInit(parsed.f, e)
         [] kind = "webappioMetadata" -> webappioInit(parsed.f, e)
         [] kind = "awsCodeBuildMetadata" -> awsCodeBuildInit(parsed.f, e)
         [] kind = "bitbucketMetadata" -> bitbucketInit(parsed.f, e)
         [] kind = "azurePipelinesMetadata" -> azurePipelinesInit(parsed.f, e)
         [] kind = "customMetadata" -> customInit(parsed.f, e)

\* pm.Init(envs, log), dispatched on the variant
ProviderInit(kind, e) == AfterParse(kind, EnvParse(FieldsOf(kind), e), e)

\* what a method returned, or how it ended the process instead: crash is
\* "none", "exit" (os.Exit(1)) or "panic" (index out of range)
Returned(v) == [crash |-> "none", val |-> v]
Exited == [crash |-> "exit", val |-> EmptyString]
Panicked == [crash |-> "panic", val |-> EmptyString]

\* awsCodeBuildMetadata.RepoNameWithOwner
RepoNameOfSplits(splits) ==
  IF Len(splits) < 2 THEN Panicked          \* splits[1]
  ELSE IF Len(splits) < 3 THEN Panicked          \* splits[2]
  ELSE Returned(SlashJoin(splits[2], TrimSuffix(splits[3], sDotGit)))
RepoNameOfURL(parsedURL) ==
  IF ~parsedURL.ok THEN Exited
  ELSE RepoNameOfSplits(Split(parsedURL.Path, "/"))
awsCodeBuildRepoNameWithOwner(buildURL) == RepoNameOfURL(URLParse(buildURL))

\* azurePipelinesMetadata.RepoNameWithOwner
azurePipelinesRepoNameWithOwner(repositoryName, collectionURI) ==
  IF Contains(repositoryName, <<"/">>) THEN repositoryName
  ELSE SlashJoin(collectionURI, repositoryName)

\* webappioMetadata.BuildURL:
\* fmt.Sprintf("https://webapp.io/%s/%s/%d/%s-%d", ...)
webappioBuildURL(f) ==
  <<"h","t","t","p","s",":","/","/","w","e","b","a","p","p",".","i","o","/">>
  \o f.OrganizationName \o <<"/">> \o f.RepositoryName \o <<"/">>
  \o FormatUint(f.JobID) \o <<"/">> \o f.RunnerID \o <<"-">>
  \o FormatUint(f.RetryIndex)

\* bitbucketMetadata.BuildURL:
\* fmt.Sprintf("%s/addon/pipelines/home#!/results/%d", ...)
bitbucketBuildURL(f) ==
  f.BitbucketGitHTTPOrigin
  \o <<"/","a","d","d","o","n","/","p","i","p","e","l","i","n","e","s","/",
       "h","o","m","e","#","!","/","r","e","s","u","l","t","s","/">>
  \o FormatUint(f.BitbucketBuildNumber)

\* semaphoreMetadata.BuildURL: fmt.Sprintf("%s/workflows/%s", ...)
semaphoreBuildURL(f) ==
  f.SemaphoreOrganizationURL
  \o <<"/","w","o","r","k","f","l","o","w","s","/">> \o f.SemaphoreWorkflowID

\* The methods of the providerMetadata interface, dispatched on the variant.

\* A Name that answers "custom" for every variant.
NameAlwaysCustom(p) == <<"c","u","s","t","o","m">>

\* providerMetadata.Name() of the variant p
Name(p) ==
  CASE p.kind = "buildkiteMetadata" -> <<"b","u","i","l","d","k","i","t","e">>
    [] p.kind = "circleMetadata" -> <<"c","i","r","c","l","e","c","i">>
    [] p.kind = "githubMetadata" -> <<"g","i","t","h","u","b","-","a","c","t","i","o","n","s">>
    [] p.kind = "jenkinsMetadata" -> <<"j","e","n","k","i","n","s">>
    [] p.kind = "semaphoreMetadata" -> <<"s","e","m","a","p","h","o","r","e">>
    [] p.kind = "travisMetadata" -> <<"t","r","a","v","i","s","-","c","i">>
    [] p.kind = "webappioMetadata" -> <<"w","e","b","a","p","p",".","i","o">>
    [] p.kind = "awsCodeBuildMetadata" -> <<"a","w","s","-","c","o","d","e","b","u","i","l","d">>
    [] p.kind = "bitbucketMetadata" -> <<"b","i","t","b","u","c","k","e","t",".","o","r","g">>
    [] p.kind = "azurePipelinesMetadata" -> <<"a","z","u","r","e","-","p","i","p","e","l","i","n","e","s">>
    [] p.kind = "customMetadata" -> <<"c","u","s","t","o","m">>

\* providerMetadata.Branch() of the variant p
Branch(p) ==
  CASE p.kind = "buildkiteMetadata" -> p.f.BuildkiteBranch
    [] p.kind = "circleMetadata" -> p.f.CircleBranch
    [] p.kind = "githubMetadata" -> p.branch
    [] p.kind = "jenkinsMetadata" -> p.f.GitBranch
    [] p.kind = "semaphoreMetadata" -> p.f.SemaphoreGitBranch
    [] p.kind = "travisMetadata" -> p.f.TravisBranch
    [] p.kind = "webappioMetadata" -> p.f.GitBranch
    [] p.kind = "awsCodeBuildMetadata" -> p.f.CodebuildSourceVersion
    [] p.kind = "bitbucketMetadata" -> p.f.BitbucketBranch
    [] p.kind = "azurePipelinesMetadata" -> p.f.SourceBranchName
    [] p.kind = "customMetadata" -> p.f.GitBranch

\* providerMetadata.BuildURL() of the variant p
BuildURL(p) ==
  CASE p.kind = "buildkiteMetadata" -> p.f.BuildkiteBuildURL
    [] p.kind = "circleMetadata" -> p.f.CircleBuildURL
    [] p.kind = "githubMetadata" -> p.buildURL
    [] p.kind = "jenkinsMetadata" -> p.buildURL
    [] p.kind = "semaphoreMetadata" -> semaphoreBuildURL(p.f)
    [] p.kind = "travisMetadata" -> p.f.TravisJobWebURL
    [] p.kind = "webappioMetadata" -> webappioBuildURL(p.f)
    [] p.kind = "awsCodeBuildMetadata" -> p.f.CodebuildPublicBuildURL
    [] p.kind = "bitbucketMetadata" -> bitbucketBuildURL(p.f)
    [] p.kind = "azurePipelinesMetadata" -> p.f.BuildURI
    [] p.kind = "customMetadata" -> p.f.BuildURI

\* providerMetadata.CommitSHA() of the variant p
CommitSHA(p) ==
  CASE p.kind = "buildkiteMetadata" -> p.f.BuildkiteCommit
    [] p.kind = "circleMetadata" -> p.f.CircleSHA1
    [] p.kind = "githubMetadata" -> p.f.GithubSHA
    [] p.kind = "jenkinsMetadata" -> p.f.GitCommit
    [] p.kind = "semaphoreMetadata" -> p.f.SemaphoreGitSHA
    [] p.kind = "travisMetadata" -> p.f.TravisCommit
    [] p.kind = "webappioMetadata" -> p.f.GitCommit
    [] p.kind = "awsCodeBuildMetadata" -> p.f.CodebuildResolvedSourceVersion
    [] p.kind = "bitbucketMetadata" -> p.f.BitbucketCommit
    [] p.kind = "azurePipelinesMetadata" -> p.f.SourceVersion
    [] p.kind = "customMetadata" -> p.f.GitCommit

\* providerMetadata.RepoNameWithOwner() of the variant p: what it returns, or
\* how it ends the process
RepoNameWithOwner(p) ==
  CASE p.kind = "buildkiteMetadata" -> Returned(p.nwo)
    [] p.kind = "circleMetadata" -> Returned(SlashJoin(p.f.CircleProjectUsername, p.f.CircleProjectReponame))
    [] p.kind = "githubMetadata" -> Returned(p.f.GithubRepoNWO)
    [] p.kind = "jenkinsMetadata" -> Returned(p.nwo)
    [] p.kind = "semaphoreMetadata" -> Returned(p.f.SemaphoreGitRepoSlug)
    [] p.kind = "travisMetadata" -> Returned(p.f.TravisRepoSlug)
    [] p.kind = "webappioMetadata" -> Returned(SlashJoin(p.f.RepositoryOwner, p.f.RepositoryName))
    [] p.kind = "awsCodeBuildMetadata" -> awsCodeBuildRepoNameWithOwner(p.f.CodebuildPublicBuildURL)
    [] p.kind = "bitbucketMetadata" -> Returned(SlashJoin(p.f.BitbucketWorkspace, p.f.BitbucketRepoSlug))
    [] p.kind = "azurePipelinesMetadata" -> Returned(azurePipelinesRepoNameWithOwner(p.f.RepositoryName,
                                                 p.f.TeamFoundationCollectionURI))
    [] p.kind = "customMetadata" -> Returned(SlashJoin(p.f.OrganizationName, p.f.RepositoryName))

---------------------------------------------------------------------------
(* newProviderMetadata: the switch that selects the variant.               *)

\* The switch with the cases for CircleCI and Buildkite exchanged.
SelectVariantCircleFirst(e) ==
  IF Get(e, "CIRCLECI") = sTrue THEN "circleMetadata"
  ELSE IF Get(e, "BUILDKITE") = sTrue THEN "buildkiteMetadata"
  ELSE IF Get(e, "GITHUB_ACTIONS") = sTrue THEN "githubMetadata"
  ELSE IF Get(e, "JENKINS_HOME") # EmptyString THEN "jenkinsMetadata"
  ELSE IF Get(e, "SEMAPHORE") = sTrue THEN "semaphoreMetadata"
  ELSE IF Get(e, "TRAVIS") = sTrue THEN "travisMetadata"
  ELSE IF Get(e, "WEBAPPIO") = sTrue THEN "webappioMetadata"
  ELSE IF Len(Get(e, "CODEBUILD_BUILD_ID")) > 0 THEN "awsCodeBuildMetadata"
  ELSE IF Len(Get(e, "BITBUCKET_BUILD_NUMBER")) > 0 THEN "bitbucketMetadata"
  ELSE IF Len(Get(e, "BUILD_BUILDID")) > 0 THEN "azurePipelinesMetadata"
  ELSE "customMetadata"

\* The switch with the Semaphore, Travis and webapp.io flags tested for being
\* not empty instead of being "true".
SelectVariantNonEmpty(e) ==
  IF Get(e, "BUILDKITE") = sTrue THEN "buildkiteMetadata"
  ELSE IF Get(e, "CIRCLECI") = sTrue THEN "circleMetadata"
  ELSE IF Get(e, "GITHUB_ACTIONS") = sTrue THEN "githubMetadata"
  ELSE IF Get(e, "JENKINS_HOME") # EmptyString THEN "jenkinsMetadata"
  ELSE IF Get(e, "SEMAPHORE") # EmptyString THEN "semaphoreMetadata"
  ELSE IF Get(e, "TRAVIS") # EmptyString THEN "travisMetadata"
  ELSE IF Get(e, "WEBAPPIO") # EmptyString THEN "webappioMetadata"
  ELSE IF Len(Get(e, "CODEBUILD_BUILD_ID")) > 0 THEN "awsCodeBuildMetadata"
  ELSE IF Len(Get(e, "BITBUCKET_BUILD_NUMBER")) > 0 THEN "bitbucketMetadata"
  ELSE IF Len(Get(e, "BUILD_BUILDID")) > 0 THEN "azurePipelinesMetadata"
  ELSE "customMetadata"

SelectVariant(e) ==
  IF Get(e, "BUILDKITE") = sTrue THEN "buildkiteMetadata"
  ELSE IF Get(e, "CIRCLECI") = sTrue THEN "circleMetadata"
  ELSE IF Get(e, "GITHUB_ACTIONS") = sTrue THEN "githubMetadata"
  ELSE IF Get(e, "JENKINS_HOME") # EmptyString THEN "jenkinsMetadata"
  ELSE IF Get(e, "SEMAPHORE") = sTrue THEN "semaphoreMetadata"
  ELSE IF Get(e, "TRAVIS") = sTrue THEN "travisMetadata"
  ELSE IF Get(e, "WEBAPPIO") = sTrue THEN "webappioMetadata"
  ELSE IF Len(Get(e, "CODEBUILD_BUILD_ID")) > 0 THEN "awsCodeBuildMetadata"
  ELSE IF Len(Get(e, "BITBUCKET_BUILD_NUMBER")) > 0 THEN "bitbucketMetadata"
  ELSE IF Len(Get(e, "BUILD_BUILDID")) > 0 THEN "azurePipelinesMetadata"
  ELSE "customMetadata"

---------------------------------------------------------------------------
(* Commits and commit resolvers.  A time.Time is a natural number, 0 the   *)
(* zero time.                                                              *)

\* Commit{}: every field zero
ZeroCommit ==
  [AuthoredAt |-> 0, AuthorEmail |-> EmptyString, AuthorName |-> EmptyString,
   CommittedAt |-> 0, CommitterEmail |-> EmptyString,
   CommitterName |-> EmptyString, Message |-> EmptyString,
   SHA |-> EmptyString, TreeSHA |-> EmptyString]

HexChars ==
  {"0","1","2","3","4","5","6","7","8","9","a","b","c","d","e","f",
   "A","B","C","D","E","F"}

\* n copies of the character c
RECURSIVE Repeat(_, _)
Repeat(c, n) == IF n = 0 THEN <<>> ELSE <<c>> \o Repeat(c, n - 1)

\* hex.DecodeString followed by hex.EncodeToString: the leading complete
\* pairs of hexadecimal digits of s, in lower case (decoding stops at the
\* first pair that holds another character)
RECURSIVE DecodedHex(_)
DecodedHex(s) ==
  IF Len(s) < 2 \/ s[1] \notin HexChars \/ s[2] \notin HexChars THEN <<>>
  ELSE <<Lower(s[1]), Lower(s[2])>> \o DecodedHex(SubSeq(s, 3, Len(s)))

\* plumbing.NewHash(s).String(): the decoded bytes copied into a 20-byte
\* array and printed as 40 hexadecimal digits
NewHash(s) ==
  LET d == DecodedHex(s)
  IN IF Len(d) >= 40 THEN SubSeq(d, 1, 40) ELSE d \o Repeat("0", 40 - Len(d))

\* A resolver is one of
\*   [kind: "Repository", objects: the commits of the repository's object
\*          database, each with its 40-digit SHA, head: whether HEAD
\*          resolves to a reference],
\*   [kind: "Static", commit: the template],
\*   [kind: "Stub", source, result]: any other implementation of the
\*          CommitResolver interface, which answers every Lookup with result.

\* repositoryCommitResolver.Lookup: [commit, err]
repositoryLookup(r, sha) ==
  LET found == {c \in r.objects : c.SHA = NewHash(sha)}
  IN IF found = {}
     THEN [commit |-> ZeroCommit,
           err |-> <<"unable to find commit with SHA", sha>>]
     ELSE [commit |-> CHOOSE c \in found : TRUE, err |-> NoError]

\* staticCommitResolver.Lookup
staticLookup(r, sha) ==
  [commit |-> [r.commit EXCEPT !.SHA = sha], err |-> NoError]

\* cr.Lookup(sha)
Lookup(r, sha) ==
  CASE r.kind = "Repository" -> repositoryLookup(r, sha)
    [] r.kind = "Static" -> staticLookup(r, sha)
    [] r.kind = "Stub" -> r.result

\* the log lines of repositoryCommitResolver.Lookup; the static resolver
\* logs nothing.  r.head says whether r.repo.Head() returns a reference,
\* which does not depend on the commits the repository holds.
LookupLog(r, sha) ==
  IF r.kind # "Repository" THEN <<>>
  ELSE <<<<"Looking up info for commit in git repository", sha>>>>
       \o (IF repositoryLookup(r, sha).err = NoError
           THEN <<<<"Found commit info">>>>
           ELSE IF r.head
                THEN <<<<"Repository's HEAD reference is">>>>
                ELSE <<>>)

sRepository == <<"R","e","p","o","s","i","t","o","r","y">>
sStatic == <<"S","t","a","t","i","c">>

\* A Source that answers "Static" whatever the resolver is.
SourceAlwaysStatic(r) == sStatic

\* cr.Source()
Source(r) ==
  CASE r.kind = "Repository" -> sRepository
    [] r.kind = "Static" -> sStatic
    [] r.kind = "Stub" -> r.source

\* strings.TrimSpace: the characters of Unicode's White_Space are trimmed;
\* a rune outside ASCII is named U+XXXX
WhiteSpace ==
  {"\t", "\n", "\\x0b", "\f", "\r", " ", "U+0085", "U+00A0", "U+1680",
   "U+2000", "U+2001", "U+2002", "U+2003", "U+2004", "U+2005", "U+2006",
   "U+2007", "U+2008", "U+2009", "U+200A", "U+2028", "U+2029", "U+202F",
   "U+205F", "U+3000"}
RECURSIVE TrimLeft(_)
TrimLeft(s) ==
  IF s # <<>> /\ Head(s) \in WhiteSpace THEN TrimLeft(Tail(s)) ELSE s
RECURSIVE TrimRight(_)
TrimRight(s) ==
  IF s # <<>> /\ s[Len(s)] \in WhiteSpace
  THEN TrimRight(SubSeq(s, 1, Len(s) - 1)) ELSE s
TrimSpace(s) == TrimRight(TrimLeft(s))

---------------------------------------------------------------------------
(* Metadata and its serialisation.                                         *)

\* &Version{}: every field empty
ZeroVersion ==
  [Number |-> EmptyString, GoOS |-> EmptyString, Commit |-> EmptyString,
   GoVersion |-> EmptyString]

\* Version.String: "BuildPulse Test Reporter %s (%s %s %s)\n"
VersionString(v) ==
  Chars("BuildPulse Test Reporter ") \o v.Number \o <<" ", "(">> \o v.GoOS
    \o <<" ">> \o v.Commit \o <<" ">> \o v.GoVersion \o <<")", "\n">>

\* &Metadata{logger: logger}: every exported field zero
ZeroMetadata ==
  [AuthoredAt |-> 0, AuthorEmail |-> EmptyString, AuthorName |-> EmptyString,
   Branch |-> EmptyString, BuildURL |-> EmptyString, Check |-> EmptyString,
   CIProvider |-> EmptyString, CommitMessage |-> EmptyString,
   CommitMetadataSource |-> EmptyString, CommitSHA |-> EmptyString,
   CommittedAt |-> 0, CommitterEmail |-> EmptyString,
   CommitterName |-> EmptyString, QuotaID |-> EmptyString,
   RepoNameWithOwner |-> EmptyString, ReporterOS |-> EmptyString,
   ReporterVersion |-> EmptyString, Tags |-> <<>>, Timestamp |-> 0,
   TreeSHA |-> EmptyString]

\* struct Metadata: the exported fields with their yaml tags, in order
metadataFields ==
  <<
    [go |-> "AuthoredAt", typ |-> "time", key |-> ":authored_at", omitempty |-> TRUE],
    [go |-> "AuthorEmail", typ |-> "string", key |-> ":author_email", omitempty |-> TRUE],
    [go |-> "AuthorName", typ |-> "string", key |-> ":author_name", omitempty |-> TRUE],
    [go |-> "Branch", typ |-> "string", key |-> ":branch", omitempty |-> FALSE],
    [go |-> "BuildURL", typ |-> "string", key |-> ":build_url", omitempty |-> FALSE],
    [go |-> "Check", typ |-> "string", key |-> ":check", omitempty |-> FALSE],
    [go |-> "CIProvider", typ |-> "string", key |-> ":ci_provider", omitempty |-> FALSE],
    [go |-> "CommitMessage", typ |-> "string", key |-> ":commit_message", omitempty |-> TRUE],
    [go |-> "CommitMetadataSource", typ |-> "string", key |-> ":commit_metadata_source", omitempty |-> FALSE],
    [go |-> "CommitSHA", typ |-> "string", key |-> ":commit", omitempty |-> FALSE],
    [go |-> "CommittedAt", typ |-> "time", key |-> ":committed_at", omitempty |-> TRUE],
    [go |-> "CommitterEmail", typ |-> "string", key |-> ":committer_email", omitempty |-> TRUE],
    [go |-> "CommitterName", typ |-> "string", key |-> ":committer_name", omitempty |-> TRUE],
    [go |-> "QuotaID", typ |-> "string", key |-> ":quota_id", omitempty |-> TRUE],
    [go |-> "RepoNameWithOwner", typ |-> "string", key |-> ":repo_name_with_owner", omitempty |-> FALSE],
    [go |-> "ReporterOS", typ |-> "string", key |-> ":reporter_os", omitempty |-> FALSE],
    [go |-> "ReporterVersion", typ |-> "string", key |-> ":reporter_version", omitempty |-> FALSE],
    [go |-> "Tags", typ |-> "strings", key |-> ":tags", omitempty |-> TRUE],
    [go |-> "Timestamp", typ |-> "time", key |-> ":timestamp", omitempty |-> FALSE],
    [go |-> "TreeSHA", typ |-> "string", key |-> ":tree", omitempty |-> TRUE]
  >>

\* isZero of an encoder that ignores omitempty: nothing counts as zero.
NeverZero(typ, v) == FALSE

\* yaml's isZero for a value of Go type typ: the empty string or list, the
\* number 0, the zero time, false
IsZeroValue(typ, v) ==
  IF typ \in {"string", "strings"} THEN v = <<>>
  ELSE IF typ = "bool" THEN v = FALSE
  ELSE IF typ \in {"uint", "uint64"} THEN v = Uint(0)
  ELSE v = 0

\* yaml.Marshal of a struct: one [key, val] entry per field with a yaml key,
\* in field order, a field tagged omitempty left out when its value is zero
RECURSIVE MarshalFields(_, _, _)
MarshalFields(fields, values, i) ==
  IF i > Len(fields) THEN <<>>
  ELSE LET row == fields[i]
           v == values[row.go]
       IN (IF row.key = "-" \/ (row.omitempty /\ IsZeroValue(row.typ, v))
           THEN <<>>
           ELSE <<[key |-> row.key, val |-> v]>>)
          \o MarshalFields(fields, values, i + 1)

\* the error a failing yaml.Marshal call returns
Encoders == {"none", "universal", "provider"}
MarshalError(which) == <<"yaml: cannot marshal", which>>

\* MarshalYAML with the provider's block put before the universal one.
MarshalYAMLProviderFirst(md, p, enc) ==
  [out |-> MarshalFields(FieldsOf(p.kind), p.f, 1)
             \o MarshalFields(metadataFields, md, 1),
   err |-> NoError]

\* MarshalYAML answering a failed yaml.Marshal with what it has so far.
MarshalYAMLPartialOnError(md, p, enc) ==
  [out |-> IF enc = "universal" THEN <<>>
           ELSE MarshalFields(metadataFields, md, 1),
   err |-> IF enc = "none" THEN NoError ELSE MarshalError(enc)]

\* Metadata.MarshalYAML: yaml.Marshal(m), then yaml.Marshal(m.providerData),
\* each error returned with nil bytes; else the two outputs appended
MarshalYAML(md, p, enc) ==
  IF enc = "universal"
  THEN [out |-> <<>>, err |-> MarshalError("universal")]
  ELSE IF enc = "provider"
  THEN [out |-> <<>>, err |-> MarshalError("provider")]
  ELSE [out |-> MarshalFields(metadataFields, md, 1)
                  \o MarshalFields(FieldsOf(p.kind), p.f, 1),
        err |-> NoError]

\* the keys of a document, and the value serialised under a key
Keys(doc) == {doc[i].key : i \in 1..Len(doc)}
ValueOf(doc, key) == doc[CHOOSE i \in 1..Len(doc) : doc[i].key = key].val

---------------------------------------------------------------------------
(* NewMetadata and MarshalYAML as a state machine.  pc is the statement    *)
(* about to run.                                                           *)

\* before newProviderMetadata has assigned pm
NoVariant == [kind |-> "nil"]

\* newProviderMetadata: the switch, and the log line naming the variant
SelectProvider ==
  /\ pc = "newProviderMetadata"
  /\ pm' = NewVariant(SelectVariant(envs))
  /\ log' = Append(log, <<"Detected build environment", Name(pm')>>)
  /\ pc' = "pm.Init"
  /\ UNCHANGED <<others, yamlErr, lookups, envs, resolver, tags, quotaID,
                 clock, version, m, err, lookupErr, calls, yaml>>

\* pm.Init with its error recorded but NewMetadata carrying on regardless.
InitProviderContinuing ==
  /\ pc = "pm.Init"
  /\ \E r \in {ProviderInit(pm.kind, envs)} :
        /\ log' = log \o r.log
        /\ err' = r.err
        /\ pc' = "initProviderData"
        /\ pm' = IF r.err # NoError THEN pm ELSE r.pm
  /\ UNCHANGED <<others, yamlErr, lookups, envs, resolver, tags, quotaID,
                 clock, version, m, lookupErr, calls, yaml>>

\* newProviderMetadata: pm.Init(envs, log); on an error newProviderMetadata,
\* initProviderData and NewMetadata return it and no Metadata
InitProvider ==
  /\ pc = "pm.Init"
  /\ \E r \in {ProviderInit(pm.kind, envs)} :
        /\ log' = log \o r.log
        /\ IF r.err # NoError
           THEN /\ err' = r.err
                /\ pc' = "failed"
                /\ pm' = pm
           ELSE /\ err' = err
                /\ pc' = "initProviderData"
                /\ pm' = r.pm
  /\ UNCHANGED <<others, yamlErr, lookups, envs, resolver, tags, quotaID,
                 clock, version, m, lookupErr, calls, yaml>>

\* Check taken from the variable alone, without the fall-back to the name.
CheckNameEnvOnly(e, p) == Get(e, "BUILDPULSE_CHECK_NAME")

\* the value of Check: BUILDPULSE_CHECK_NAME when present and not empty,
\* else the provider's name
CheckName(e, p) ==
  IF "BUILDPULSE_CHECK_NAME" \in DOMAIN e /\ e["BUILDPULSE_CHECK_NAME"] # EmptyString
  THEN e["BUILDPULSE_CHECK_NAME"]
  ELSE Name(p)

\* Metadata.initProviderData after newProviderMetadata returned pm.  The
\* process ends inside pm.RepoNameWithOwner() when that exits or panics.
InitProviderData ==
  /\ pc = "initProviderData"
  /\ LET nwo == RepoNameWithOwner(pm)
         m1 == [m EXCEPT !.Branch = Branch(pm), !.BuildURL = BuildURL(pm),
                         !.CIProvider = Name(pm)]
     IN IF nwo.crash # "none"
        THEN /\ m' = m1
             /\ pc' = nwo.crash
        ELSE /\ m' = [m1 EXCEPT !.RepoNameWithOwner = nwo.val,
                                !.Check = CheckName(envs, pm)]
             /\ pc' = "initCommitData"
  /\ UNCHANGED <<others, yamlErr, lookups, envs, resolver, tags, quotaID,
                 clock, version, pm, err, lookupErr, log, calls, yaml>>

\* the warning initCommitData logs when the lookup failed
LookupWarning(e) ==
  <<<<"X">>, <<"X Commit lookup unsuccessful", e>>, <<"X">>,
    <<"X Test results will not be analyzed for this build">>, <<"X">>,
    <<"X In a future release, this issue will become a fatal error">>,
    <<"X">>>>

\* initCommitData without the fall-back to the provider's SHA: after a failed
\* lookup the commit fields are all taken from the Commit that came back.
InitCommitDataNoFallback ==
  /\ pc = "initCommitData"
  /\ LET r == Lookup(resolver, CommitSHA(pm))
     IN /\ lookupErr' = r.err
        /\ lookups' = Append(lookups, [sha |-> CommitSHA(pm), commit |-> r.commit,
                                       err |-> r.err])
        /\ log' = log \o LookupLog(resolver, CommitSHA(pm))
                      \o (IF r.err # NoError THEN LookupWarning(r.err)
                          ELSE <<>>)
        /\ m' = [m EXCEPT !.CommitMetadataSource = Source(resolver),
                          !.AuthoredAt = r.commit.AuthoredAt,
                          !.AuthorEmail = r.commit.AuthorEmail,
                          !.AuthorName = r.commit.AuthorName,
                          !.CommitMessage = TrimSpace(r.commit.Message),
                          !.CommitSHA = r.commit.SHA,
                          !.CommittedAt = r.commit.CommittedAt,
                          !.CommitterEmail = r.commit.CommitterEmail,
                          !.CommitterName = r.commit.CommitterName,
                          !.TreeSHA = r.commit.TreeSHA]
  /\ calls' = [calls EXCEPT !.lookup = @ + 1]
  /\ pc' = "initTimestamp"
  /\ UNCHANGED <<others, yamlErr, envs, resolver, tags, quotaID, clock,
                 version, pm, err, yaml>>

\* Metadata.initCommitData(resolver, m.providerData.CommitSHA()); the
\* resolver writes to the logger the Metadata writes to
InitCommitData ==
  /\ pc = "initCommitData"
  /\ LET sha == CommitSHA(pm)
         r == Lookup(resolver, sha)
         c == r.commit
         m1 == [m EXCEPT !.CommitMetadataSource = Source(resolver)]
     IN /\ lookupErr' = r.err
        /\ lookups' = Append(lookups, [sha |-> sha, commit |-> c, err |-> r.err])
        /\ IF r.err # NoError
           THEN /\ log' = log \o LookupLog(resolver, sha)
                              \o LookupWarning(r.err)
                /\ m' = [m1 EXCEPT !.CommitSHA = sha]
           ELSE /\ log' = log \o LookupLog(resolver, sha)
                /\ m' = [m1 EXCEPT !.AuthoredAt = c.AuthoredAt,
                                   !.AuthorEmail = c.AuthorEmail,
                                   !.AuthorName = c.AuthorName,
                                   !.CommitMessage = TrimSpace(c.Message),
                                   !.CommitSHA = c.SHA,
                                   !.CommittedAt = c.CommittedAt,
                                   !.CommitterEmail = c.CommitterEmail,
                                   !.CommitterName = c.CommitterName,
                                   !.TreeSHA = c.TreeSHA]
  /\ calls' = [calls EXCEPT !.lookup = @ + 1]
  /\ pc' = "initTimestamp"
  /\ UNCHANGED <<others, yamlErr, envs, resolver, tags, quotaID, clock,
                 version, pm, err, yaml>>

\* initTimestamp reading the process's clock, m.Timestamp = time.Now(),
\* instead of the clock it is handed.
InitTimestampOwnClock ==
  /\ pc = "initTimestamp"
  /\ m' = [m EXCEPT !.Timestamp = wall]
  /\ calls' = [calls EXCEPT !.clock = @ + 1]
  /\ pc' = "initVersionData"
  /\ UNCHANGED <<others, yamlErr, lookups, envs, resolver, tags, quotaID,
                 clock, version, pm, err, lookupErr, log, yaml>>

\* Metadata.initTimestamp(now)
InitTimestamp ==
  /\ pc = "initTimestamp"
  /\ m' = [m EXCEPT !.Timestamp = clock]
  /\ calls' = [calls EXCEPT !.clock = @ + 1]
  /\ pc' = "initVersionData"
  /\ UNCHANGED <<others, yamlErr, lookups, envs, resolver, tags, quotaID,
                 clock, version, pm, err, lookupErr, log, yaml>>

\* Metadata.initVersionData(version)
InitVersionData ==
  /\ pc = "initVersionData"
  /\ m' = [m EXCEPT !.ReporterOS = version.GoOS,
                    !.ReporterVersion = version.Number]
  /\ pc' = "return"
  /\ UNCHANGED <<others, yamlErr, lookups, envs, resolver, tags, quotaID,
                 clock, version, pm, err, lookupErr, log, calls, yaml>>

\* The end of NewMetadata with the tags stored in reverse order.
ReturnTagsReversed ==
  /\ pc = "return"
  /\ m' = [m EXCEPT !.QuotaID = quotaID,
                    !.Tags = [i \in 1..Len(tags) |-> tags[Len(tags) + 1 - i]]]
  /\ pc' = "returned"
  /\ UNCHANGED <<others, yamlErr, lookups, envs, resolver, tags, quotaID,
                 clock, version, pm, err, lookupErr, log, calls, yaml>>

\* NewMetadata: m.QuotaID = quotaID; m.Tags = tags; return m, nil
Return ==
  /\ pc = "return"
  /\ m' = [m EXCEPT !.QuotaID = quotaID, !.Tags = tags]
  /\ pc' = "returned"
  /\ UNCHANGED <<others, yamlErr, lookups, envs, resolver, tags, quotaID,
                 clock, version, pm, err, lookupErr, log, calls, yaml>>

\* the caller serialises the Metadata it got: meta.MarshalYAML()
Marshal ==
  /\ pc = "returned"
  /\ \E r \in {MarshalYAML(m, pm, encoder)} :
        /\ yaml' = r.out
        /\ yamlErr' = r.err
        /\ pc' = IF r.err # NoError THEN "marshal failed" ELSE "marshalled"
  /\ UNCHANGED <<others, lookups, envs, resolver, tags, quotaID, clock,
                 version, pm, m, err, lookupErr, log, calls>>

\* a second meta.MarshalYAML() on the Metadata already serialised
MarshalAgain ==
  /\ pc = "marshalled"
  /\ \E r \in {MarshalYAML(m, pm, encoder)} :
        /\ yaml' = r.out
        /\ yamlErr' = r.err
        /\ pc' = "marshalled twice"
  /\ UNCHANGED <<others, lookups, envs, resolver, tags, quotaID, clock,
                 version, pm, m, err, lookupErr, log, calls>>

\* how an invocation can end, and the record kept of the one before
Ends == {"failed", "exit", "panic", "marshal failed", "marshalled"}
NoRun == [pc |-> "none", out |-> <<>>, err |-> NoError, yamlErr |-> NoError]

\* a resolver of another implementation that has the Source() of r and
\* answers Lookup as r answered the one call made of it
Answering(r, asked) ==
  [kind |-> "Stub", source |-> Source(r),
   result |-> [commit |-> asked[1].commit, err |-> asked[1].err]]

\* NewMetadata and MarshalYAML are invoked a second time with the same
\* version, environment, tags, quota ID and clock value.  What the
\* arguments do not fix differs: the process's clock has moved on, the
\* logger is the one the first invocation wrote to, and a resolver that was
\* asked is replaced by another one that gives the same results.
InvokeAgain ==
  /\ pc \in Ends
  /\ previous = NoRun
  /\ previous' = [pc |-> pc, out |-> yaml, err |-> err, yamlErr |-> yamlErr]
  /\ wall' = wall + 1
  /\ resolver' = IF Len(lookups) = 1 THEN Answering(resolver, lookups)
                  ELSE resolver
  /\ pc' = "newProviderMetadata"
  /\ pm' = NoVariant
  /\ m' = ZeroMetadata
  /\ err' = NoError
  /\ lookupErr' = NoError
  /\ log' = log
  /\ calls' = [lookup |-> 0, clock |-> 0]
  /\ yaml' = <<>>
  /\ yamlErr' = NoError
  /\ lookups' = <<>>
  /\ UNCHANGED <<envs, tags, quotaID, clock, version, encoder, submit, fsys,
                 tar, run>>

Next ==
  \/ SelectProvider
  \/ InitProvider
  \/ InitProviderData
  \/ InitCommitData
  \/ InitTimestamp
  \/ InitVersionData
  \/ Return
  \/ Marshal
  \/ MarshalAgain
  \/ InvokeAgain

---------------------------------------------------------------------------
(* The inputs NewMetadata is run on.                                       *)

\* a commit SHA as 40 hexadecimal digits, the same in upper case, and one
\* that is too short
ShaA == Repeat("a", 40)
ShaUpper == Repeat("A", 40)
ShaShort == <<"a", "1">>

GitRemoteHTTPS ==
  <<"h","t","t","p","s",":","/","/">> \o sGithubCom \o <<"/","o","/","r">> \o sDotGit
GitRemoteSSH ==
  <<"g","i","t","@">> \o sGithubCom \o <<":","o","/","r">> \o sDotGit
MalformedRemote ==
  <<"s","o","m","e","-","m","a","l","f","o","r","m","e","d","-","u","r","l">>
PublicBuildURL ==
  <<"h","t","t","p","s",":","/","/","h","/","o","/","r">> \o sDotGit

\* an environment in which the Init of every variant succeeds and no
\* accessor ends the process; every provider's commit variable holds sha
BaseEnv(sha) ==
  [k \in {"BUILDKITE_REPO", "GIT_URL", "BUILD_URL", "CODEBUILD_PUBLIC_BUILD_URL",
          "GIT_BRANCH", "GIT_COMMIT", "ORGANIZATION_NAME", "REPOSITORY_NAME",
          "BUILDKITE_COMMIT", "CIRCLE_SHA1", "GITHUB_SHA", "SEMAPHORE_GIT_SHA",
          "TRAVIS_COMMIT", "CODEBUILD_RESOLVED_SOURCE_VERSION",
          "BITBUCKET_COMMIT", "BUILD_SOURCEVERSION"} |->
     CASE k = "BUILDKITE_REPO" -> GitRemoteHTTPS
       [] k = "GIT_URL" -> GitRemoteSSH
       [] k = "BUILD_URL" -> <<"u">>
       [] k = "CODEBUILD_PUBLIC_BUILD_URL" -> PublicBuildURL
       [] k = "GIT_BRANCH" -> <<"b">>
       [] k = "ORGANIZATION_NAME" -> <<"o">>
       [] k = "REPOSITORY_NAME" -> <<"r">>
       [] OTHER -> sha]

EmptyEnv == [k \in {} |-> EmptyString]

TriggerVars ==
  {"BUILDKITE", "CIRCLECI", "GITHUB_ACTIONS", "JENKINS_HOME", "SEMAPHORE",
   "TRAVIS", "WEBAPPIO", "CODEBUILD_BUILD_ID", "BITBUCKET_BUILD_NUMBER",
   "BUILD_BUILDID"}

\* the variable and value that make the switch select a variant
TriggerOf(kind) ==
  CASE kind = "buildkiteMetadata" -> "BUILDKITE" :> sTrue
    [] kind = "circleMetadata" -> "CIRCLECI" :> sTrue
    [] kind = "githubMetadata" -> "GITHUB_ACTIONS" :> sTrue
    [] kind = "jenkinsMetadata" -> "JENKINS_HOME" :> <<"/","j">>
    [] kind = "semaphoreMetadata" -> "SEMAPHORE" :> sTrue
    [] kind = "travisMetadata" -> "TRAVIS" :> sTrue
    [] kind = "webappioMetadata" -> "WEBAPPIO" :> sTrue
    [] kind = "awsCodeBuildMetadata" -> "CODEBUILD_BUILD_ID" :> <<"1">>
    [] kind = "bitbucketMetadata" -> "BITBUCKET_BUILD_NUMBER" :> <<"9","9">>
    [] kind = "azurePipelinesMetadata" -> "BUILD_BUILDID" :> <<"1">>
    [] kind = "customMetadata" -> EmptyEnv

\* newCommitResolverStub() of the tests
StaticEmpty == [kind |-> "Static", commit |-> ZeroCommit]

CommitA ==
  [AuthoredAt |-> 3, AuthorEmail |-> <<"a","@","x">>, AuthorName |-> <<"A">>,
   CommittedAt |-> 4, CommitterEmail |-> <<"c","@","x">>,
   CommitterName |-> <<"C">>, Message |-> <<"\f"," ","m","s","g","\n","\\x0b","U+00A0">>,
   SHA |-> ShaA, TreeSHA |-> Repeat("c", 40)]

Resolvers ==
  { StaticEmpty,
    [kind |-> "Static", commit |-> [CommitA EXCEPT !.SHA = EmptyString]],
    [kind |-> "Repository", objects |-> {}, head |-> FALSE],
    [kind |-> "Repository", objects |-> {CommitA}, head |-> TRUE],
    [kind |-> "Stub", source |-> <<"S","t","u","b">>,
     result |-> [commit |-> ZeroCommit, err |-> <<"lookup failed">>]] }

DefaultInput(e) ==
  [envs |-> e, resolver |-> StaticEmpty, tags |-> <<>>, quotaID |-> EmptyString]

\* Detection: at most MaxTriggers trigger variables set, each to "", "true"
\* or "1", alone or on top of BaseEnv
TriggerValues == {EmptyString, sTrue, <<"1">>}
TriggerEnvs ==
  UNION {[T -> TriggerValues] :
           T \in {S \in SUBSET TriggerVars : Cardinality(S) <= MaxTriggers}}
DetectInputs ==
  {DefaultInput(t) : t \in TriggerEnvs}
  \cup {DefaultInput(t @@ BaseEnv(ShaA)) : t \in TriggerEnvs}

\* The custom fallback: each required variable unset, empty or set
CustomVars ==
  {"GIT_BRANCH", "GIT_COMMIT", "BUILD_URL", "ORGANIZATION_NAME", "REPOSITORY_NAME"}
CustomInputs ==
  {DefaultInput(e) :
     e \in UNION {[S -> {EmptyString, <<"x">>}] : S \in SUBSET CustomVars}}

\* The whole pipeline: every variant, check names, SHAs, resolvers, tags
CheckEnvs ==
  {EmptyEnv, "BUILDPULSE_CHECK_NAME" :> EmptyString,
   "BUILDPULSE_CHECK_NAME" :> <<"c","h","k">>}
PipelineInputs ==
  {[envs |-> TriggerOf(Kinds[k]) @@ c @@ BaseEnv(sha), resolver |-> r,
    tags |-> t, quotaID |-> q] :
     k \in 1..Len(Kinds), c \in CheckEnvs, sha \in {ShaA, ShaUpper, ShaShort},
     r \in Resolvers,
     t \in {<<>>, <<EmptyString>>, <<<<"t","1">>, <<"t","2">>>>},
     q \in {EmptyString, <<"q">>}}

\* GitHub Actions: the event, the ref and the head ref
GithubEvents == {EmptyEnv, "GITHUB_EVENT_NAME" :> <<"p","u","s","h">>,
                 "GITHUB_EVENT_NAME" :> sPullRequest}
GithubRefs ==
  {EmptyEnv, "GITHUB_REF" :> EmptyString, "GITHUB_REF" :> sRefsHeads,
   "GITHUB_REF" :> (sRefsHeads \o <<"b">>),
   "GITHUB_REF" :> (sRefsHeads \o <<"b","/","c">>),
   "GITHUB_REF" :> (<<"x">> \o sRefsHeads \o <<"b">>),
   "GITHUB_REF" :> <<"r","e","f","s","/","t","a","g","s","/","v","1">>,
   "GITHUB_REF" :> <<"r","e","f","s","/","p","u","l","l","/","3","/","m","e","r","g","e">>,
   "GITHUB_REF" :> <<"r","e","f","s","/","h","e","a","d","s">>}
GithubHeadRefs ==
  {EmptyEnv, "GITHUB_HEAD_REF" :> EmptyString, "GITHUB_HEAD_REF" :> <<"f","x">>}
GithubInputs ==
  {DefaultInput(ev @@ rf @@ hr @@ ("GITHUB_ACTIONS" :> sTrue)) :
     ev \in GithubEvents, rf \in GithubRefs, hr \in GithubHeadRefs}

\* AWS CodeBuild: the public build URL unset, or any string up to MaxURLLen
\* over a letter, a digit, ":" and "/", or a full URL, or a URL with user
\* info, %-escapes, a bracketed host, a fragment or a control character
EscapedURLs ==
  {"https://u:p@h/o/r", "http://u@h/o/r", "http://u^@h/o/r",
   "http://u%zz@h/o/r", "http://a b/o/r", "http://h%41/o/r",
   "http://h%C3/o/r", "http://h/a%2Fb/c", "http://h/o/%zz", "http://h/o/r%4",
   "http://h/%6f/r", "http://[::1/o/r", "http://[::1]:8/o/r",
   "http://[::1]x/o/r", "http://[fe80::1%25en0]/o/r",
   "http://[fe80::1%25e%2fn]/o/r", "/o/r#%zz", "/o/r#f", "/o\t/r",
   "http://h:8/o/r", "http://h:x/o/r"}
AwsURLs ==
  StringsUpTo({"a", "1", ":", "/"}, MaxURLLen)
  \cup {PublicBuildURL, GitRemoteHTTPS, <<"/","o","/","r">>}
  \cup {Chars(u) : u \in EscapedURLs}
AwsInputs ==
  {DefaultInput("CODEBUILD_BUILD_ID" :> <<"1">>)}
  \cup {DefaultInput(("CODEBUILD_BUILD_ID" :> <<"1">>)
                     @@ ("CODEBUILD_PUBLIC_BUILD_URL" :> u)) : u \in AwsURLs}

\* Git remote URLs for Buildkite (BUILDKITE_REPO) and Jenkins (GIT_URL)
RemotePrefixes == {<<"h","t","t","p","s",":","/","/">>, <<"g","i","t","@">>}
RemoteHosts == {sGithubCom, <<"g","i","t","h","u","b","X","c","o","m">>,
                <<"g","i","t","h","u","b",".","c","o">>}
RemoteURLs ==
  {p \o h \o <<s>> \o t \o x :
     p \in RemotePrefixes, h \in RemoteHosts, s \in {":", "/", "-"},
     t \in StringsUpTo({"o", "/"}, MaxTailLen), x \in {EmptyString, sDotGit}}
  \cup {GitRemoteHTTPS, GitRemoteSSH, MalformedRemote, EmptyString}
RemoteInputs ==
  {DefaultInput(("BUILDKITE" :> sTrue) @@ ("BUILDKITE_REPO" :> u)) : u \in RemoteURLs}
  \cup {DefaultInput(("JENKINS_HOME" :> <<"/","j">>) @@ ("GIT_URL" :> u)
                     @@ ("BUILD_URL" :> <<"u">>)) : u \in RemoteURLs}
  \cup {DefaultInput("BUILDKITE" :> sTrue)}

\* the greatest values of 32 and 64 bits, and their successors
sMaxUint32 == <<"4","2","9","4","9","6","7","2","9","5">>
sOverUint32 == <<"4","2","9","4","9","6","7","2","9","6">>
sMaxUint64 ==
  <<"1","8","4","4","6","7","4","4","0","7","3","7","0","9","5","5","1","6",
    "1","5">>
sOverUint64 ==
  <<"1","8","4","4","6","7","4","4","0","7","3","7","0","9","5","5","1","6",
    "1","6">>

\* Pull-request numbers for Buildkite and Travis: unset, any string up to
\* MaxNumLen over 0, 1, 9, x and _, or "false"
PullRequestStrings ==
  StringsUpTo({"0", "1", "9", "x", "_"}, MaxNumLen)
  \cup {<<"f","a","l","s","e">>, <<"1","2","3","4">>, sMaxUint64, sOverUint64,
        <<"0","x","f","f","f","f","f","f","f","f","f","f","f","f","f","f","f",
          "f">>}
PullRequestInputs ==
  {DefaultInput(("BUILDKITE" :> sTrue) @@ ("BUILDKITE_REPO" :> GitRemoteSSH))}
  \cup {DefaultInput(("BUILDKITE" :> sTrue) @@ ("BUILDKITE_REPO" :> GitRemoteSSH)
                     @@ ("BUILDKITE_PULL_REQUEST" :> s)) : s \in PullRequestStrings}
  \cup {DefaultInput("TRAVIS" :> sTrue)}
  \cup {DefaultInput(("TRAVIS" :> sTrue) @@ ("TRAVIS_PULL_REQUEST" :> s)) :
          s \in PullRequestStrings}

\* Typed fields: for each variant, each of its uint64, uint and bool fields
\* read from a variable, with that variable set to a value that is or is not
\* of the type (the greatest values of 32 and 64 bits and their successors
\* among them), or to the empty string; and two bad values at once
TypedRows(kind) ==
  {j \in 1..Len(FieldsOf(kind)) :
     FieldsOf(kind)[j].typ # "string" /\ FieldsOf(kind)[j].env # ""}
TypedValues ==
  {EmptyString, <<"a","b","c">>, <<"1">>, <<"1","2">>, <<"0","1">>,
   sMaxUint32, sOverUint32, sMaxUint64, sOverUint64,
   <<"9","9","9","9","9","9","9","9","9","9","9","9","9","9","9","9","9","9",
     "9","9","x">>,
   <<"-","1">>, <<"+","1">>, <<"1",".","5">>, <<"0","x","1">>,
   <<"1","_","0">>, <<"1"," ">>, sTrue, <<"t">>, <<"y","e","s">>,
   <<"f","a","l","s","e">>}
TypedInputs ==
  UNION {{DefaultInput((FieldsOf(Kinds[k])[j].env :> v)
                       @@ TriggerOf(Kinds[k]) @@ BaseEnv(ShaA)) :
            j \in TypedRows(Kinds[k]), v \in TypedValues} :
         k \in 1..Len(Kinds)}
  \cup {DefaultInput(("BUILDKITE_BUILD_NUMBER" :> <<"a","b","c">>)
                     @@ ("BUILDKITE_RETRY_COUNT" :> <<"x">>)
                     @@ TriggerOf("buildkiteMetadata") @@ BaseEnv(ShaA))}

\* Every variant with GIT_COMMIT holding another value than the variant's
\* own commit variable, or the empty string
CommitInputs ==
  {DefaultInput(TriggerOf(Kinds[k])
                @@ [BaseEnv(ShaA) EXCEPT !["GIT_COMMIT"] = v]) :
     k \in 1..Len(Kinds), v \in {ShaUpper, EmptyString}}

\* Jenkins: BUILD_URL unset, empty or set, with GIT_URL unset, well formed
\* or malformed
JenkinsInputs ==
  {DefaultInput(("JENKINS_HOME" :> <<"/","j">>) @@ b @@ g) :
     b \in {EmptyEnv, "BUILD_URL" :> EmptyString, "BUILD_URL" :> <<"u">>},
     g \in {EmptyEnv, "GIT_URL" :> GitRemoteSSH, "GIT_URL" :> MalformedRemote}}

Inputs ==
  DetectInputs \cup CustomInputs \cup PipelineInputs \cup GithubInputs
  \cup AwsInputs \cup RemoteInputs \cup PullRequestInputs \cup TypedInputs
  \cup CommitInputs \cup JenkinsInputs

\* the inputs on which a yaml.Marshal call may also fail: one per variant
MarshalInputs ==
  {DefaultInput(TriggerOf(Kinds[k]) @@ BaseEnv(ShaA)) : k \in 1..Len(Kinds)}

\* the Submit command and its file system play no part in NewMetadata
NoSubmit == [pc |-> "none"]
NoFiles == [repos |-> {}, cwd |-> <<"/">>, entries |-> <<>>]
NoTar == [writer |-> "none"]
NotRunning == [pc |-> "none"]

Init ==
  /\ \E i \in Inputs :
       /\ envs = i.envs
       /\ resolver = i.resolver
       /\ tags = i.tags
       /\ quotaID = i.quotaID
       /\ encoder \in (IF i \in MarshalInputs THEN Encoders ELSE {"none"})
  /\ previous = NoRun
  /\ wall = 0
  /\ submit = NoSubmit
  /\ fsys = NoFiles
  /\ tar = NoTar
  /\ run = NotRunning
  /\ clock = 7
  /\ version = [Number |-> <<"v","1",".","2",".","3">>,
                GoOS |-> <<"l","i","n","u","x">>,
                Commit |-> <<"a","b","c">>,
                GoVersion |-> <<"g","o","1",".","1","7">>]
  /\ pc = "newProviderMetadata"
  /\ pm = NoVariant
  /\ m = ZeroMetadata
  /\ err = NoError
  /\ lookupErr = NoError
  /\ log = <<>>
  /\ calls = [lookup |-> 0, clock |-> 0]
  /\ yaml = <<>>
  /\ yamlErr = NoError
  /\ lookups = <<>>

Spec == Init /\ [][Next]_vars

---------------------------------------------------------------------------
(* The commit resolvers on their own: a resolver is constructed and its    *)
(* Lookup is called any number of times with any SHA.                      *)

\* the most calls of Lookup made on one resolver
MaxLookups == 2

\* A Lookup that stores the requested SHA in the static resolver's template
\* before answering.
AfterLookupOverwritingTemplate(r, sha) ==
  IF r.kind = "Static" THEN [r EXCEPT !.commit.SHA = sha] ELSE r

\* the resolver after cr.Lookup(sha): no implementation assigns to a field
\* of its receiver or to the Commit its receiver points to
AfterLookup(r, sha) == r

ShaB == Repeat("b", 40)

\* a second commit, and the commit whose SHA is ShaShort padded with zeros
CommitB ==
  [AuthoredAt |-> 5, AuthorEmail |-> <<"b","@","x">>, AuthorName |-> <<"B">>,
   CommittedAt |-> 6, CommitterEmail |-> <<"d","@","x">>,
   CommitterName |-> <<"D">>, Message |-> <<"m","2">>,
   SHA |-> ShaB, TreeSHA |-> Repeat("d", 40)]
CommitShortPadded == [CommitB EXCEPT !.SHA = ShaShort \o Repeat("0", 38)]

\* NewStaticCommitResolver(c, logger) and NewRepositoryCommitResolver(path,
\* logger) for a path whose repository holds the given commits
LookupResolvers ==
  { StaticEmpty,
    [kind |-> "Static", commit |-> CommitA],
    [kind |-> "Static", commit |-> [ZeroCommit EXCEPT !.TreeSHA = Repeat("c", 40)]],
    [kind |-> "Repository", objects |-> {}, head |-> FALSE],
    [kind |-> "Repository", objects |-> {}, head |-> TRUE],
    [kind |-> "Repository", objects |-> {CommitA}, head |-> TRUE],
    [kind |-> "Repository", objects |-> {CommitA}, head |-> FALSE],
    [kind |-> "Repository", objects |-> {CommitA, CommitB}, head |-> TRUE],
    [kind |-> "Repository", objects |-> {CommitB, CommitShortPadded},
     head |-> TRUE] }

\* a SHA followed by a character that is not a hexadecimal digit
ShaTrailing == ShaA \o <<" ">>

LookupShas == {ShaA, ShaB, ShaUpper, ShaShort, ShaTrailing, EmptyString}

ResolverInit ==
  /\ resolver \in LookupResolvers
  /\ lookups = <<>>
  /\ lookupErr = NoError
  /\ log = <<>>
  /\ calls = [lookup |-> 0, clock |-> 0]
  /\ pc = "Lookup"
  /\ envs = EmptyEnv
  /\ tags = <<>>
  /\ quotaID = EmptyString
  /\ clock = 0
  /\ version = ZeroVersion
  /\ pm = NoVariant
  /\ m = ZeroMetadata
  /\ err = NoError
  /\ yaml = <<>>
  /\ yamlErr = NoError
  /\ encoder = "none"
  /\ previous = NoRun
  /\ wall = 0
  /\ submit = NoSubmit
  /\ fsys = NoFiles
  /\ tar = NoTar
  /\ run = NotRunning

\* cr.Lookup(sha)
LookupCall(sha) ==
  /\ pc = "Lookup"
  /\ Len(lookups) < MaxLookups
  /\ lookups' = Append(lookups, [sha |-> sha,
                                 commit |-> Lookup(resolver, sha).commit,
                                 err |-> Lookup(resolver, sha).err])
  /\ lookupErr' = Lookup(resolver, sha).err
  /\ log' = log \o LookupLog(resolver, sha)
  /\ resolver' = AfterLookup(resolver, sha)
  /\ calls' = [calls EXCEPT !.lookup = @ + 1]
  /\ UNCHANGED <<others, yamlErr, envs, tags, quotaID, clock, version, pc,
                 pm, m, err, yaml>>

ResolverNext == \E sha \in LookupShas : LookupCall(sha)

ResolverSpec == ResolverInit /\ [][ResolverNext]_vars

---------------------------------------------------------------------------
(* The arguments of `submit` and the files they name.  An argument is a    *)
(* string; the file tree is the sequence of its entries in lexical order,  *)
(* each a path, whether it is a directory, and whether listing it fails.   *)

MaxArgs == 3

sDotXML == <<".", "x", "m", "l">>

\* strings.Join(elems, " ")
RECURSIVE JoinSpaces(_)
JoinSpaces(elems) ==
  IF Len(elems) = 0 THEN EmptyString
  ELSE IF Len(elems) = 1 THEN elems[1]
  ELSE elems[1] \o <<" ">> \o JoinSpaces(Tail(elems))

\* flagRegex.MatchString(v): the pattern ^-
flagRegex(v) == Len(v) > 0 /\ v[1] = "-"

\* The split that takes every argument that is no flag as a path, wherever
\* it stands.
pathsAndFlagsFromArgsAnywhere(args) ==
  [paths |-> SelectSeq(args, LAMBDA v : ~flagRegex(v)),
   flags |-> SelectSeq(args, flagRegex)]

\* pathsAndFlagsFromArgs(args): the arguments before the first flag, and the
\* arguments from the first flag on
pathsAndFlagsFromArgs(args) ==
  LET isFlag == {i \in 1..Len(args) : flagRegex(args[i])}
  IN IF isFlag = {} THEN [paths |-> args, flags |-> <<>>]
     ELSE LET i == CHOOSE j \in isFlag : \A k \in isFlag : j <= k
          IN [paths |-> SubSeq(args, 1, i - 1),
              flags |-> SubSeq(args, i, Len(args))]

sDot == <<".">>
sSlash == <<"/">>
sDotDot == <<".", ".">>

\* strings.Split(s, sep) for a separator of one character
RECURSIVE SplitOn(_, _)
SplitOn(s, sep) ==
  LET at == {i \in 1..Len(s) : s[i] = sep}
  IN IF at = {} THEN <<s>>
     ELSE LET i == CHOOSE j \in at : \A k \in at : j <= k
          IN <<SubSeq(s, 1, i - 1)>> \o SplitOn(SubSeq(s, i + 1, Len(s)), sep)

\* strings.Join(elems, "/")
RECURSIVE JoinSlashes(_)
JoinSlashes(elems) ==
  IF Len(elems) = 0 THEN EmptyString
  ELSE IF Len(elems) = 1 THEN elems[1]
  ELSE elems[1] \o sSlash \o JoinSlashes(Tail(elems))

\* filepath.Clean, element by element: empty elements and "." are dropped,
\* ".." removes the element before it
RECURSIVE CleanElements(_, _, _)
CleanElements(elems, kept, rooted) ==
  IF Len(elems) = 0 THEN kept
  ELSE LET e == elems[1]
           next ==
             IF e = EmptyString \/ e = sDot THEN kept
             ELSE IF e = sDotDot
                  THEN IF Len(kept) > 0 /\ kept[Len(kept)] # sDotDot
                       THEN SubSeq(kept, 1, Len(kept) - 1)
                       ELSE IF rooted THEN kept ELSE Append(kept, e)
             ELSE Append(kept, e)
       IN CleanElements(Tail(elems), next, rooted)
Clean(path) ==
  LET rooted == Len(path) > 0 /\ path[1] = "/"
      kept == CleanElements(SplitOn(path, "/"), <<>>, rooted)
      out == (IF rooted THEN sSlash ELSE EmptyString) \o JoinSlashes(kept)
  IN IF out = EmptyString THEN sDot ELSE out

\* filepath.Split(path), named SplitPath beside the Split of strings: the
\* part up to and including the last separator,
\* and the part after it
SplitPath(path) ==
  LET seps == {i \in 1..Len(path) : path[i] = "/"}
      i == IF seps = {} THEN 0 ELSE CHOOSE j \in seps : \A k \in seps : k <= j
  IN [dir |-> SubSeq(path, 1, i), file |-> SubSeq(path, i + 1, Len(path))]

\* filepath.Dir(path): all but the last element, cleaned
Dir(path) == Clean(SplitPath(path).dir)

\* filepath.Join(dir, name) of two elements that are not empty
Join(dir, name) == Clean(dir \o sSlash \o name)

\* os.basename(name), the Name() of the FileInfo that os.Stat(name) and
\* os.Lstat(name) return: the trailing separators removed, then what follows
\* the last separator
RECURSIVE basename(_)
basename(name) ==
  IF Len(name) > 1 /\ name[Len(name)] = "/"
  THEN basename(SubSeq(name, 1, Len(name) - 1))
  ELSE IF Len(name) > 1 THEN SplitPath(name).file ELSE name

\* The file system.  files.cwd is the absolute clean path of the working
\* directory; files.entries lists the files by their clean path, from the
\* working directory or absolute, each with whether it is a directory,
\* whether opening it for reading fails, and the size of a regular file.
\* The root, the working directory and every directory on the way to a
\* listed file exist without being listed.  There are no symbolic links,
\* and every directory may be searched.
FileInfo(real, dir, unreadable, size) ==
  [ok |-> TRUE, real |-> real, dir |-> dir, unreadable |-> unreadable,
   size |-> size, err |-> "none"]
NotFound(reason) ==
  [ok |-> FALSE, real |-> EmptyString, dir |-> FALSE, unreadable |-> FALSE,
   size |-> 0, err |-> reason]
sENOENT == "no such file or directory"
sENOTDIR == "not a directory"

\* the absolute path of a clean path
Abs(files, path) ==
  IF path[1] = "/" THEN path
  ELSE IF path = sDot THEN files.cwd
  ELSE IF files.cwd = sSlash THEN sSlash \o path
  ELSE files.cwd \o sSlash \o path

\* the directories on the way to an absolute path, and every path at which
\* there is a file
Ancestors(abs) ==
  {sSlash} \cup {SubSeq(abs, 1, i - 1) : i \in {j \in 2..Len(abs) : abs[j] = "/"}}
ListedPaths(files) ==
  {Abs(files, files.entries[i].path) : i \in 1..Len(files.entries)}
AbsPaths(files) ==
  ListedPaths(files) \cup {files.cwd}
  \cup UNION {Ancestors(p) : p \in ListedPaths(files) \cup {files.cwd}}

\* the file at an absolute clean path: a listed one, or a directory on the
\* way to a listed one or to the working directory
Listed(files, abs) ==
  {i \in 1..Len(files.entries) : Abs(files, files.entries[i].path) = abs}
OnTheWay(files, abs) ==
  \/ abs = sSlash
  \/ abs = files.cwd
  \/ HasPrefix(files.cwd, abs \o sSlash)
  \/ \E i \in 1..Len(files.entries) :
        HasPrefix(Abs(files, files.entries[i].path), abs \o sSlash)
EntryAt(files, abs, listed) ==
  IF listed # {}
  THEN LET e == files.entries[CHOOSE i \in listed : TRUE]
       IN FileInfo(abs, e.dir, e.unreadable, e.size)
  ELSE IF OnTheWay(files, abs) THEN FileInfo(abs, TRUE, FALSE, 0)
  ELSE NotFound(sENOENT)
EntryOf(files, abs) == EntryAt(files, abs, Listed(files, abs))

\* the path resolution of the kernel: the elements are followed one after
\* the other from the directory cur, each from a directory; ".." leads to
\* the parent, and from the root to the root
RECURSIVE ResolveFrom(_, _, _)
ResolveFrom(files, elems, cur) ==
  IF Len(elems) = 0 THEN EntryOf(files, cur)
  ELSE IF ~EntryOf(files, cur).dir THEN NotFound(sENOTDIR)
  ELSE IF elems[1] = EmptyString \/ elems[1] = sDot
  THEN ResolveFrom(files, Tail(elems), cur)
  ELSE IF elems[1] = sDotDot
  THEN ResolveFrom(files, Tail(elems), Dir(cur))
  ELSE LET next == IF cur = sSlash THEN sSlash \o elems[1]
                   ELSE cur \o sSlash \o elems[1]
       IN IF EntryOf(files, next).ok
          THEN ResolveFrom(files, Tail(elems), next)
          ELSE NotFound(sENOENT)

\* os.Stat(path) and, there being no symbolic links, os.Lstat(path); real
\* is the absolute clean path of the file found
Stat(files, path) ==
  IF Len(path) = 0 THEN NotFound(sENOENT)
  ELSE IF path[1] = "/" THEN ResolveFrom(files, SplitOn(Tail(path), "/"), sSlash)
  ELSE ResolveFrom(files, SplitOn(path, "/"), files.cwd)
Exists(files, path) == Stat(files, path).ok
IsDir(files, path) == Stat(files, path).dir
Lstat(files, path) == Exists(files, path)

\* filepath.Ext(path): from the last dot of the last element on
Ext(path) ==
  LET dots == {i \in 1..Len(path) :
                 path[i] = "." /\ \A j \in i..Len(path) : path[j] # "/"}
  IN IF dots = {} THEN EmptyString
     ELSE SubSeq(path, CHOOSE i \in dots : \A j \in dots : j <= i, Len(path))

\* bytes.EqualFold on letters of the alphabet
EqualFold(s, t) ==
  Len(s) = Len(t) /\ \A i \in 1..Len(s) : Lower(s[i]) = Lower(t[i])

\* isXML(filename)
isXML(filename) == EqualFold(Ext(filename), sDotXML)

\* the number of a character among the bytes
CharCodes ==
  [c \in {ByteChar(v) : v \in 0..255} |-> CHOOSE v \in 0..255 : ByteChar(v) = c]
CharCode(c) == CharCodes[c]

\* the order of two sequences of numbers, the first difference deciding
RECURSIVE LexLess(_, _)
LexLess(a, b) ==
  IF Len(b) = 0 THEN FALSE
  ELSE IF Len(a) = 0 THEN TRUE
  ELSE IF a[1] = b[1] THEN LexLess(Tail(a), Tail(b))
  ELSE a[1] < b[1]
\* the order in which a walk meets the files: a directory before what it
\* holds, the names of a directory in the order of sort.Strings, byte by
\* byte; that is the order of the paths with the separator before every
\* other character, and for names the order of sort.Strings itself
WalkCode(c) == IF c = "/" THEN 0 ELSE CharCode(c)
WalkLess(p, q) ==
  LexLess([i \in 1..Len(p) |-> WalkCode(p[i])],
          [i \in 1..Len(q) |-> WalkCode(q[i])])
Sorted(S) ==
  [i \in 1..Cardinality(S) |->
     CHOOSE x \in S : Cardinality({y \in S : WalkLess(y, x)}) = i - 1]

\* what lies below the directory at the absolute path real, and its path
\* from there
IsBelow(path, real) ==
  IF real = sSlash THEN path # sSlash ELSE HasPrefix(path, real \o sSlash)
Rel(path, real) ==
  IF real = sSlash THEN Tail(path)
  ELSE SubSeq(path, Len(real) + 2, Len(path))

\* filepath.Walk(root, fn): the calls of fn in their order, each with the
\* path it is given (the root as it was spelled, what lies below it joined
\* to the root), the Name() and IsDir() of its FileInfo, whether reading
\* the directory fails, and the absolute path of the file; err is the error
\* of os.Lstat(root), with which fn is called once
Visit(path, name, info) ==
  [path |-> path, name |-> name, dir |-> info.dir,
   unreadable |-> info.dir /\ info.unreadable, real |-> info.real]
VisitEach(files, root, info, below) ==
  [i \in 1..Len(below) |->
     Visit(Join(root, Rel(below[i], info.real)), SplitPath(below[i]).file,
           EntryOf(files, below[i]))]
VisitBelow(files, root, info) ==
  VisitEach(files, root, info,
            Sorted({p \in AbsPaths(files) : IsBelow(p, info.real)}))
WalkFrom(files, root, info) ==
  IF ~info.ok
  THEN [visited |-> <<>>, err |-> <<"lstat", root, info.err>>]
  ELSE [visited |-> <<Visit(root, basename(root), info)>>
                      \o (IF info.dir THEN VisitBelow(files, root, info)
                          ELSE <<>>),
        err |-> NoError]
Walk(files, root) == WalkFrom(files, root, Stat(files, root))

\* xmlPathsFromDir(dir): [paths, err]; the walk fails at a root that
\* os.Lstat does not find and at a directory that cannot be listed
PathsOf(entries) == [i \in 1..Len(entries) |-> entries[i].path]
FirstUnreadable(entries) ==
  entries[CHOOSE i \in 1..Len(entries) :
            /\ entries[i].unreadable
            /\ \A j \in 1..(i - 1) : ~entries[j].unreadable].path
xmlPathsFromWalk(walk) ==
  IF walk.err # NoError THEN [paths |-> <<>>, err |-> walk.err]
  ELSE IF \E i \in 1..Len(walk.visited) : walk.visited[i].unreadable
  THEN [paths |-> <<>>,
        err |-> <<"open", FirstUnreadable(walk.visited), "permission denied">>]
  ELSE [paths |-> PathsOf(SelectSeq(walk.visited, LAMBDA e : isXML(e.name))),
        err |-> NoError]
xmlPathsFromDir(files, dir) == xmlPathsFromWalk(Walk(files, dir))

\* filepath.scanChunk(pattern): [star, chunk, rest]; ChunkEnd is where the
\* scan of the chunk stops
RECURSIVE ChunkEnd(_, _, _)
ChunkEnd(p, i, inrange) ==
  IF i > Len(p) THEN i
  ELSE IF p[i] \notin {"\\", "[", "]", "*"} THEN ChunkEnd(p, i + 1, inrange)
  ELSE IF p[i] = "\\" THEN ChunkEnd(p, IF i + 1 <= Len(p) THEN i + 2 ELSE i + 1,
                                    inrange)
  ELSE IF p[i] = "[" THEN ChunkEnd(p, i + 1, TRUE)
  ELSE IF p[i] = "]" THEN ChunkEnd(p, i + 1, FALSE)
  ELSE IF inrange THEN ChunkEnd(p, i + 1, inrange)
  ELSE i
RECURSIVE SkipStars(_)
SkipStars(p) == IF Len(p) > 0 /\ p[1] = "*" THEN SkipStars(Tail(p)) ELSE p
ChunkOf(pattern, p, end) ==
  [star |-> Len(p) < Len(pattern), chunk |-> SubSeq(p, 1, end - 1),
   rest |-> SubSeq(p, end, Len(p))]
scanChunk(pattern) ==
  ChunkOf(pattern, SkipStars(pattern), ChunkEnd(SkipStars(pattern), 1, FALSE))

\* filepath.getEsc(chunk): [r, nchunk, bad], bad for ErrBadPattern
BadEsc == [r |-> "none", nchunk |-> EmptyString, bad |-> TRUE]
getEsc(chunk) ==
  IF Len(chunk) = 0 \/ chunk[1] = "-" \/ chunk[1] = "]" THEN BadEsc
  ELSE LET c == IF chunk[1] = "\\" THEN Tail(chunk) ELSE chunk
       IN IF Len(c) = 0 THEN BadEsc
          ELSE [r |-> c[1], nchunk |-> Tail(c), bad |-> Len(c) = 1]

\* the ranges of a character class, up to the ] that closes it: whether r,
\* "none" once the match has failed, lies in one of them, and the chunk
\* after the class
BadClass == [bad |-> TRUE, chunk |-> EmptyString, match |-> FALSE]
InRange(lo, r, hi) ==
  r # "none" /\ CharCode(lo) <= CharCode(r) /\ CharCode(r) <= CharCode(hi)
RECURSIVE parseRanges(_, _, _, _)
parseRangeTo(lo, hi, r, match, nrange) ==
  IF hi.bad THEN BadClass
  ELSE parseRanges(hi.nchunk, r, match \/ InRange(lo.r, r, hi.r), nrange + 1)
parseRangeFrom(lo, r, match, nrange) ==
  IF lo.bad THEN BadClass
  ELSE IF lo.nchunk[1] = "-"
  THEN parseRangeTo(lo, getEsc(Tail(lo.nchunk)), r, match, nrange)
  ELSE parseRangeTo(lo, lo, r, match, nrange)
parseRanges(chunk, r, match, nrange) ==
  IF Len(chunk) > 0 /\ chunk[1] = "]" /\ nrange > 0
  THEN [bad |-> FALSE, chunk |-> Tail(chunk), match |-> match]
  ELSE parseRangeFrom(getEsc(chunk), r, match, nrange)

\* filepath.matchChunk(chunk, s): [rest, ok, bad].  After the match has
\* failed the chunk is read on to see that it is well formed, and s is read
\* no longer.
BadChunk == [rest |-> EmptyString, ok |-> FALSE, bad |-> TRUE]
FailedChunk == [rest |-> EmptyString, ok |-> FALSE, bad |-> FALSE]
\* the ranges of the class at the head of the chunk, r being the character
\* of s they are looked for, "none" once the match has failed
ClassOf(chunk, r) ==
  parseRanges(SubSeq(chunk,
                     IF Len(chunk) > 1 /\ chunk[2] = "^" THEN 3 ELSE 2,
                     Len(chunk)),
              r, FALSE, 0)
\* the loop once the match has failed
RECURSIVE matchChunkFailed(_)
matchClassFailed(cls) ==
  IF cls.bad THEN BadChunk ELSE matchChunkFailed(cls.chunk)
matchChunkFailed(chunk) ==
  IF Len(chunk) = 0 THEN FailedChunk
  ELSE IF chunk[1] \notin {"[", "\\"} THEN matchChunkFailed(Tail(chunk))
  ELSE IF chunk[1] = "[" THEN matchClassFailed(ClassOf(chunk, "none"))
  ELSE IF Len(chunk) = 1 THEN BadChunk
  ELSE matchChunkFailed(SubSeq(chunk, 3, Len(chunk)))
\* the loop: failed0 is whether the character before did not match
RECURSIVE matchChunkFrom(_, _, _)
matchClass(cls, s, negated) ==
  IF cls.bad THEN BadChunk
  ELSE matchChunkFrom(cls.chunk, Tail(s), cls.match = negated)
matchChunkFrom(chunk, s, failed0) ==
  IF failed0 \/ (Len(s) = 0 /\ Len(chunk) > 0) THEN matchChunkFailed(chunk)
  ELSE IF Len(chunk) = 0 THEN [rest |-> s, ok |-> TRUE, bad |-> FALSE]
  ELSE IF chunk[1] \notin {"[", "?", "\\"}
  THEN matchChunkFrom(Tail(chunk), Tail(s), chunk[1] # s[1])
  ELSE IF chunk[1] = "["
  THEN matchClass(ClassOf(chunk, s[1]), s, Len(chunk) > 1 /\ chunk[2] = "^")
  ELSE IF chunk[1] = "?"
  THEN matchChunkFrom(Tail(chunk), Tail(s), s[1] = "/")
  ELSE IF Len(chunk) = 1 THEN BadChunk
  ELSE matchChunkFrom(SubSeq(chunk, 3, Len(chunk)), Tail(s), chunk[2] # s[1])
matchChunk(chunk, s) == matchChunkFrom(chunk, s, FALSE)

\* filepath.Match(pattern, name): [matched, bad], bad for ErrBadPattern
NoMatch == [matched |-> FALSE, bad |-> FALSE]
BadMatch == [matched |-> FALSE, bad |-> TRUE]
\* the rest of the pattern is read to see that it is well formed
RECURSIVE RestValid(_)
RestValidAfter(sc) ==
  IF matchChunk(sc.chunk, EmptyString).bad THEN BadMatch
  ELSE RestValid(sc.rest)
RestValid(pattern) ==
  IF Len(pattern) = 0 THEN NoMatch ELSE RestValidAfter(scanChunk(pattern))
RECURSIVE Match(_, _)
\* the loop after a star, which looks for a match of the chunk after i + 1
\* skipped bytes of the name, for i from first on; a separator is not
\* skipped.  Skips are the i the loop comes to if nothing ends it.
Skips(name, first) ==
  {i \in first..(Len(name) - 1) : \A k \in (first + 1)..(i + 1) : name[k] # "/"}
\* the match of the chunk after i + 1 skipped bytes ends the loop: it is a
\* match, of all the name if the chunk is the last, or the chunk is bad
EndsSkipping(rest, mc) ==
  IF mc.ok THEN ~(Len(rest) = 0 /\ Len(mc.rest) > 0) ELSE mc.bad
MatchSkipped(rest, mc) ==
  IF mc.ok THEN Match(rest, mc.rest) ELSE BadMatch
MatchSkippingTo(chunk, rest, name, ends) ==
  IF ends = {} THEN RestValid(rest)
  ELSE MatchSkipped(rest,
                    matchChunk(chunk,
                               SubSeq(name,
                                      (CHOOSE i \in ends :
                                         \A j \in ends : i <= j) + 2,
                                      Len(name))))
MatchSkipping(chunk, rest, name, first) ==
  MatchSkippingTo(chunk, rest, name,
                  {i \in Skips(name, first) :
                     EndsSkipping(rest,
                                  matchChunk(chunk,
                                             SubSeq(name, i + 2, Len(name))))})
MatchChunked(sc, name, mc) ==
  IF mc.ok /\ (Len(mc.rest) = 0 \/ Len(sc.rest) > 0)
  THEN Match(sc.rest, mc.rest)
  ELSE IF mc.bad THEN BadMatch
  ELSE IF sc.star THEN MatchSkipping(sc.chunk, sc.rest, name, 0)
  ELSE RestValid(sc.rest)
MatchScanned(sc, name) ==
  IF sc.star /\ Len(sc.chunk) = 0
  THEN [matched |-> \A i \in 1..Len(name) : name[i] # "/", bad |-> FALSE]
  ELSE MatchChunked(sc, name, matchChunk(sc.chunk, name))
Match(pattern, name) ==
  IF Len(pattern) = 0 THEN [matched |-> Len(name) = 0, bad |-> FALSE]
  ELSE MatchScanned(scanChunk(pattern), name)

\* filepath.hasMeta(path)
hasMeta(path) == \E i \in 1..Len(path) : path[i] \in {"*", "?", "[", "\\"}

\* filepath.cleanGlobPath(path)
cleanGlobPath(path) ==
  IF path = EmptyString THEN sDot
  ELSE IF path = sSlash THEN path
  ELSE SubSeq(path, 1, Len(path) - 1)

\* filepath.glob(dir, pattern, matches): [matches, err]; what lies in dir
\* and matches the pattern is added to the matches
sBadPattern == <<"syntax error in pattern">>
RECURSIVE globNames(_, _, _, _)
globName(dir, pattern, names, matches, matched) ==
  IF matched.bad THEN [matches |-> matches, err |-> sBadPattern]
  ELSE globNames(dir, pattern, Tail(names),
                 IF matched.matched THEN Append(matches, Join(dir, names[1]))
                 ELSE matches)
globNames(dir, pattern, names, matches) ==
  IF Len(names) = 0 THEN [matches |-> matches, err |-> NoError]
  ELSE globName(dir, pattern, names, matches, Match(pattern, names[1]))
\* d.Readdirnames(-1), sorted
Names(files, real) ==
  Sorted({SplitPath(p).file : p \in {q \in AbsPaths(files) :
                                        q # real /\ Dir(q) = real}})
globIn(files, dir, pattern, matches, info) ==
  IF ~info.ok \/ ~info.dir \/ info.unreadable
  THEN [matches |-> matches, err |-> NoError]
  ELSE globNames(dir, pattern, Names(files, info.real), matches)
glob(files, dir, pattern, matches) ==
  globIn(files, dir, pattern, matches, Stat(files, dir))

\* filepath.Glob(pattern): [matches, err]
RECURSIVE Glob(_, _)
RECURSIVE globEach(_, _, _, _)
globNext(files, dirs, file, found) ==
  IF found.err # NoError THEN found
  ELSE globEach(files, Tail(dirs), file, found.matches)
globEach(files, dirs, file, matches) ==
  IF Len(dirs) = 0 THEN [matches |-> matches, err |-> NoError]
  ELSE globNext(files, dirs, file, glob(files, dirs[1], file, matches))
globUnder(files, dirs, file) ==
  IF dirs.err # NoError THEN [matches |-> <<>>, err |-> dirs.err]
  ELSE globEach(files, dirs.matches, file, <<>>)
globSplit(files, pattern, dir, file) ==
  IF ~hasMeta(dir) THEN glob(files, dir, file, <<>>)
  ELSE IF dir = pattern THEN [matches |-> <<>>, err |-> sBadPattern]
  ELSE globUnder(files, Glob(files, dir), file)
Glob(files, pattern) ==
  IF Match(pattern, EmptyString).bad
  THEN [matches |-> <<>>, err |-> sBadPattern]
  ELSE IF ~hasMeta(pattern)
  THEN [matches |-> IF Lstat(files, pattern) THEN <<pattern>> ELSE <<>>,
        err |-> NoError]
  ELSE globSplit(files, pattern, cleanGlobPath(SplitPath(pattern).dir),
                 SplitPath(pattern).file)

\* xmlPathsFromGlob(pattern): [paths, err]
xmlPathsAmong(candidates) ==
  IF candidates.err # NoError THEN [paths |-> <<>>, err |-> candidates.err]
  ELSE [paths |-> SelectSeq(candidates.matches, isXML), err |-> NoError]
xmlPathsFromGlob(files, pattern) == xmlPathsAmong(Glob(files, pattern))

\* xmlPathsFromArgs(args): [paths, err], one argument after the other
xmlPathsOfArg(files, arg) ==
  IF IsDir(files, arg) THEN xmlPathsFromDir(files, arg)
  ELSE xmlPathsFromGlob(files, arg)
xmlPathsJoined(files, arg, xmls, rest) ==
  IF xmls.err # NoError
  THEN [paths |-> <<>>,
        err |-> IF IsDir(files, arg) THEN xmls.err
                ELSE <<"invalid value for path", arg, xmls.err>>]
  ELSE IF rest.err # NoError THEN rest
  ELSE [paths |-> xmls.paths \o rest.paths, err |-> NoError]
RECURSIVE xmlPathsFromArgs(_, _)
xmlPathsFromArgs(files, args) ==
  IF Len(args) = 0 THEN [paths |-> <<>>, err |-> NoError]
  ELSE xmlPathsJoined(files, args[1], xmlPathsOfArg(files, args[1]),
                      xmlPathsFromArgs(files, Tail(args)))

\* strings.SplitPath(s, " "): the pieces between the blanks, the empty ones too
RECURSIVE SplitSpaces(_)
SplitSpaces(s) ==
  LET blanks == {i \in 1..Len(s) : s[i] = " "}
  IN IF blanks = {} THEN <<s>>
     ELSE LET i == CHOOSE j \in blanks : \A k \in blanks : j <= k
          IN <<SubSeq(s, 1, i - 1)>> \o SplitSpaces(SubSeq(s, i + 1, Len(s)))

\* the trees drawn: directory d with a report and a text file, the empty
\* directory e, a text file and a report with an upper-case extension
\* a file of one byte, or a directory
Entry(path, dir) ==
  [path |-> path, dir |-> dir, unreadable |-> FALSE,
   size |-> IF dir THEN 0 ELSE 1]
sD == <<"d">>
sE == <<"e">>
sReport == <<"d", "/", "r", ".", "x", "m", "l">>
sText == <<"n", ".", "t", "x", "t">>
sUpperReport == <<"r", ".", "X", "M", "L">>
\* the working directory, and a report beside it
sWorkDir == <<"/", "h", "/", "w">>
sOutside == <<"/", "h", "/", "p", ".", "x", "m", "l">>
ReportTree ==
  <<Entry(sD, TRUE), Entry(<<"d", "/", "n">>, FALSE), Entry(sReport, FALSE),
    Entry(sE, TRUE), Entry(sText, FALSE), Entry(sUpperReport, FALSE),
    Entry(sOutside, FALSE)>>
\* no report anywhere, and e cannot be listed
BareTree ==
  <<Entry(sD, TRUE), Entry(<<"d", "/", "n">>, FALSE),
    [Entry(sE, TRUE) EXCEPT !.unreadable = TRUE], Entry(sText, FALSE)>>
\* a directory whose own name has the extension of a report
sDirXML == <<"d", ".", "x", "m", "l">>
OddTree == <<Entry(sD, TRUE), Entry(sDirXML, TRUE), Entry(sE, TRUE)>>
Trees == {ReportTree, BareTree, OddTree, <<>>}

\* the arguments drawn: up to MaxArgs of a directory, an empty directory, a
\* missing path, a text file, two globs, a bad pattern, a flag, the working
\* directory, two directories spelled otherwise, and the parent directory
sAnyFlag == <<"-", "f">>
ArgWords ==
  {sD, sE, <<"x">>, sText, <<"*", ".", "x", "m", "l">>, <<"*", ".", "X", "M", "L">>,
   <<"[">>, sDirXML, sAnyFlag, sDot, <<"e", "/">>, <<".", "/", "d">>, sDotDot}
RECURSIVE ArgLists(_)
ArgLists(n) ==
  IF n = 0 THEN {<<>>}
  ELSE ArgLists(n - 1)
       \cup {Append(l, w) : l \in {k \in ArgLists(n - 1) : Len(k) = n - 1},
                            w \in ArgWords}

sMissing == <<"x">>
\* the spelling of a -repository-dir value as a path of the tree
PathChars(p) ==
  CASE p = "." -> sDot
    [] p = "d" -> sD
    [] p = "f" -> sText
    [] p = "" -> EmptyString
    [] OTHER -> sMissing


---------------------------------------------------------------------------
(* Submit.Init: the command's arguments and environment are checked and    *)
(* the commit resolver is chosen.  The arguments are the argument list,    *)
(* and what the flag package makes of its flag part: whether the flag set  *)
(* parsed it and which flags it visited, with their values.  The file      *)
(* system is the tree the path arguments are looked up in, the set of      *)
(* paths -repository-dir may name that are directories and the set of      *)
(* those in which a git repository is found.                               *)

\* s.commitResolver before any assignment
NoResolver == [kind |-> "nil"]

\* the paths drawn: the working directory, a directory, a file, nothing
Paths == {".", "d", "f", "x"}

\* NewSubmit: the Submit with the defaults of its flags
NewSubmit(args, factory) ==
  [args |-> args, factory |-> factory,
   accountID |-> Uint(0), repositoryID |-> Uint(0), repositoryPath |-> ".",
   tree |-> EmptyString, quotaID |-> EmptyString,
   credentials |-> [AccessKeyID |-> EmptyString,
                    SecretAccessKey |-> EmptyString],
   bucket |-> EmptyString, envs |-> EmptyEnv, commitResolver |-> NoResolver,
   paths |-> <<>>, coveragePathsString |-> EmptyString,
   coveragePaths |-> <<>>, tagsString |-> EmptyString,
   disableCoverageAutoDiscovery |-> FALSE]

\* the lines NewSubmit writes to its logger: "Current version: %s" with
\* version.String(), then the line that announces the submit command, whose
\* command name stands between two \x60 characters
NewSubmitLog(v) ==
  <<<<"Current version: ", VersionString(v)>>,
    <<Chars("Initiating ") \o <<"\\x60">> \o Chars("submit") \o <<"\\x60">>>>>>

\* s.fs.Parse(flagArgs): the fields bound to the flags that were parsed
AfterFlags(s) ==
  LET given == s.args.flags
      val(name, default) == IF name \in DOMAIN given THEN given[name]
                            ELSE default
  IN [s EXCEPT !.accountID = val("account-id", Uint(0)),
               !.repositoryID = val("repository-id", Uint(0)),
               !.repositoryPath = val("repository-dir", "."),
               !.tree = val("tree", EmptyString),
               !.quotaID = val("quota-id", EmptyString),
               !.coveragePathsString = val("coverage-files", EmptyString),
               !.tagsString = val("tags", EmptyString),
               !.disableCoverageAutoDiscovery =
                  val("disable-coverage-auto", FALSE)]

\* s.coveragePaths, the -coverage-files value split at the blanks, assigned
\* after the checks of -account-id and -repository-id
SplitCoveragePaths(s) ==
  [s EXCEPT !.coveragePaths = IF Len(s.coveragePathsString) > 0
                              THEN SplitSpaces(s.coveragePathsString)
                              ELSE <<>>]

\* the pattern of Init with the upper-case digits admitted as well.
MatchTreeAnyCase(tree) ==
  Len(tree) = 40 /\ \A i \in 1..40 : tree[i] \in HexChars

\* regexp.MustCompile(`^[0-9a-f]{40}$`).MatchString(tree)
MatchTree(tree) ==
  /\ Len(tree) = 40
  /\ \A i \in 1..40 : tree[i] \in Digits \cup {"a", "b", "c", "d", "e", "f"}

\* commitResolverFactory.NewFromStaticValue(commit)
NewFromStaticValue(factory, commit) ==
  IF factory = "default"
  THEN [kind |-> "Static", commit |-> commit]
  ELSE [kind |-> "Stub", source |-> sStatic,
        result |-> [commit |-> ZeroCommit, err |-> NoError]]

\* commitResolverFactory.NewFromRepository(path): [resolver, err].  The
\* default factory is NewRepositoryCommitResolver, which returns nil and an
\* error when git finds no repository; the factory of the tests always
\* answers with its stub.
NewFromRepository(factory, path, files) ==
  IF factory = "default"
  THEN IF path \in files.repos
       THEN [resolver |-> [kind |-> "Repository", objects |-> {CommitA},
                           head |-> TRUE, path |-> path],
             err |-> NoError]
       ELSE [resolver |-> NoResolver,
             err |-> <<"no repository found at", path>>]
  ELSE [resolver |-> [kind |-> "Stub", source |-> sRepository,
                      result |-> [commit |-> ZeroCommit, err |-> NoError]],
        err |-> NoError]

sDefaultBucket ==
  <<"b","u","i","l","d","p","u","l","s","e","-","u","p","l","o","a","d","s">>

\* what Init returns at its checks, in the order of the code
SubmitReturn(s, error, lines) == [s |-> s, err |-> error, log |-> lines]

\* the exception of Init admitting any list of paths that has a directory
\* in it.
isSingleDirAmongPaths(files, pathArgs) ==
  \E i \in 1..Len(pathArgs) : IsDir(files, pathArgs[i])

\* isSingleDir := len(pathArgs) == 1 && err == nil && info.IsDir()
isSingleDir(files, pathArgs) ==
  Len(pathArgs) = 1 /\ IsDir(files, pathArgs[1])

\* Submit.Init from s.fs.Parse to the checks of the credentials, for the
\* Submit s0 that holds the paths found
InitFlags(s0, e, l2) ==
  LET a == s0.args
      s1 == AfterFlags(s0)
      sc == SplitCoveragePaths(s1)
      s2 == [sc EXCEPT !.credentials.AccessKeyID =
                          Get(e, "BUILDPULSE_ACCESS_KEY_ID")]
      s3 == [s2 EXCEPT !.credentials.SecretAccessKey =
                          Get(e, "BUILDPULSE_SECRET_ACCESS_KEY")]
      s4 == [s3 EXCEPT !.bucket = IF "BUILDPULSE_BUCKET" \in DOMAIN e
                                  THEN e["BUILDPULSE_BUCKET"]
                                  ELSE sDefaultBucket]
  IN IF ~a.parse
          THEN SubmitReturn(s1, <<"flag: parse error">>, l2)
     ELSE IF s1.accountID = Uint(0)
          THEN SubmitReturn(s1, <<"missing required flag: -account-id">>, l2)
     ELSE IF s1.repositoryID = Uint(0)
          THEN SubmitReturn(s1, <<"missing required flag: -repository-id">>, l2)
     ELSE IF Get(e, "BUILDPULSE_ACCESS_KEY_ID") = EmptyString
          THEN SubmitReturn(sc, <<"missing required environment variable",
                                  "BUILDPULSE_ACCESS_KEY_ID">>, l2)
     ELSE IF Get(e, "BUILDPULSE_SECRET_ACCESS_KEY") = EmptyString
          THEN SubmitReturn(s2, <<"missing required environment variable",
                                  "BUILDPULSE_SECRET_ACCESS_KEY">>, l2)
     ELSE SubmitReturn(s4, NoError, l2)

\* Submit.Init from the check of the path arguments on, for the paths
\* found at them
InitPaths(s, e, files, pathArgs, found, l2) ==
  IF Len(pathArgs) = 0
  THEN SubmitReturn(s, <<"missing TEST_RESULTS_PATH">>, l2)
  ELSE IF found.err # NoError
  THEN SubmitReturn(s, found.err, l2)
  ELSE IF Len(found.paths) = 0 /\ ~isSingleDir(files, pathArgs)
  THEN SubmitReturn([s EXCEPT !.paths = found.paths],
                    <<"no XML reports found at TEST_RESULTS_PATH",
                      JoinSpaces(pathArgs)>>, l2)
  ELSE InitFlags([s EXCEPT !.paths = found.paths], e, l2)

\* Submit.Init up to and including the checks of the credentials
InitArguments(s, e, files) ==
  IF ~s.args.getwd
  THEN SubmitReturn(s, <<"getwd">>,
                    <<<<"Received args", JoinSpaces(s.args.argv)>>>>)
  ELSE InitPaths(s, e, files, pathsAndFlagsFromArgs(s.args.argv).paths,
                 xmlPathsFromArgs(files,
                                  pathsAndFlagsFromArgs(s.args.argv).paths),
                 <<<<"Received args", JoinSpaces(s.args.argv)>>,
                   <<"Using working directory">>>>)

\* Submit.Init from the check of -repository-dir against -tree to its end
InitResolver(s, e, files, lines) ==
  LET flagset == DOMAIN s.args.flags
      made == NewFromRepository(s.factory, s.repositoryPath, files)
      l3 == lines
            \o (IF "quota-id" \notin flagset
                THEN <<<<"Submitting against quota", s.quotaID>>>> ELSE <<>>)
            \o (IF "repository-dir" \notin flagset
                THEN <<<<"Using default value for -repository-dir flag">>>>
                ELSE <<>>)
            \o <<<<"Looking for git repository at", s.repositoryPath>>>>
  IN IF "repository-dir" \in flagset /\ "tree" \in flagset
     THEN SubmitReturn(s, <<"invalid use of flag -repository-dir with flag -tree">>,
                       lines)
     ELSE IF "tree" \in flagset /\ ~MatchTree(s.tree)
     THEN SubmitReturn(s, <<"invalid value for flag -tree", s.tree>>, lines)
     ELSE IF ~IsDir(files, PathChars(s.repositoryPath))
     THEN SubmitReturn(s, <<"invalid value for flag -repository-dir",
                            s.repositoryPath, "is not a directory">>, lines)
     ELSE IF "tree" \in flagset
     THEN SubmitReturn(
            [s EXCEPT !.envs = e,
                      !.commitResolver =
                         NewFromStaticValue(s.factory,
                           [ZeroCommit EXCEPT !.TreeSHA = s.tree])],
            NoError,
            Append(lines, <<"Using value of -tree flag as the tree SHA", s.tree>>))
     ELSE IF made.err # NoError
     THEN SubmitReturn([s EXCEPT !.envs = e, !.commitResolver = made.resolver],
                       <<"invalid value for flag -repository-dir", made.err>>,
                       l3)
     ELSE SubmitReturn([s EXCEPT !.envs = e, !.commitResolver = made.resolver],
                       NoError,
                       Append(l3, <<"Found git repository at", s.repositoryPath>>))

\* Submit.Init(args, envs, commitResolverFactory)
SubmitInitResult(s, e, files) ==
  LET first == InitArguments(s, e, files)
  IN IF first.err # NoError THEN first
     ELSE InitResolver(first.s, e, files, first.log)

\* the arguments: everything in order, and each way of failing early
Credentials ==
  ("BUILDPULSE_ACCESS_KEY_ID" :> <<"i","d">>)
  @@ ("BUILDPULSE_SECRET_ACCESS_KEY" :> <<"k","e","y">>)
RequiredFlags == ("account-id" :> Uint(42)) @@ ("repository-id" :> Uint(7))
TreeValues ==
  {Repeat("0", 40), ShaA, ShaUpper, ShaShort, ShaTrailing, EmptyString,
   Repeat("g", 40)}
ResolverFlags ==
  {d @@ t @@ q :
     d \in {<<>>} \cup {"repository-dir" :> p : p \in Paths},
     t \in {<<>>} \cup {"tree" :> v : v \in TreeValues},
     q \in {<<>>, "quota-id" :> <<"q">>}}
GoodArgs(flags) ==
  [getwd |-> TRUE, argv |-> <<sD, sAnyFlag>>, parse |-> TRUE,
   flags |-> flags @@ RequiredFlags]
FileSystems ==
  [repos : SUBSET {".", "d"}, cwd : {sWorkDir}, entries : {ReportTree}]
AllFiles(tree) ==
  [repos |-> {".", "d"}, cwd |-> sWorkDir, entries |-> tree]
\* an argument list, with the flags the flag set finds in its flag part:
\* the required ones if there is a flag part, none if there is none
ArgsOf(argv) ==
  [getwd |-> TRUE, argv |-> argv, parse |-> TRUE,
   flags |-> IF pathsAndFlagsFromArgs(argv).flags = <<>> THEN <<>>
             ELSE RequiredFlags]
FewFlags ==
  {<<>>, "tree" :> ShaA, "tree" :> ShaShort, "repository-dir" :> "d",
   ("repository-dir" :> "d") @@ ("tree" :> ShaA)}
EarlyArgs ==
  {[GoodArgs(f) EXCEPT !.getwd = FALSE] : f \in FewFlags}
  \cup {[GoodArgs(f) EXCEPT !.argv = v] :
          f \in FewFlags,
          v \in {<<sAnyFlag>>, <<<<"[">>, sAnyFlag>>, <<<<"x">>, sAnyFlag>>,
                 <<sE, sAnyFlag>>}}
  \cup {[GoodArgs(f) EXCEPT !.parse = FALSE] : f \in FewFlags}
  \cup {[getwd |-> TRUE, argv |-> <<sD, sAnyFlag>>, parse |-> TRUE,
          flags |-> f @@ r] :
          f \in FewFlags,
          r \in {<<>>, "account-id" :> Uint(42), "repository-id" :> Uint(7),
                 ("account-id" :> Uint(0)) @@ ("repository-id" :> Uint(7))}}
EarlyEnvs ==
  {EmptyEnv,
   "BUILDPULSE_ACCESS_KEY_ID" :> <<"i","d">>,
   "BUILDPULSE_SECRET_ACCESS_KEY" :> <<"k","e","y">>,
   ("BUILDPULSE_ACCESS_KEY_ID" :> EmptyString) @@ Credentials,
   ("BUILDPULSE_SECRET_ACCESS_KEY" :> EmptyString) @@ Credentials,
   ("BUILDPULSE_BUCKET" :> <<"b">>) @@ Credentials}

SubmitStart ==
  /\ \/ /\ \E f \in ResolverFlags, factory \in {"default", "stub"} :
             submit = NewSubmit(GoodArgs(f), factory)
        /\ envs = Credentials
        /\ fsys \in FileSystems
     \/ /\ \E a \in EarlyArgs : submit = NewSubmit(a, "default")
        /\ envs = Credentials
        /\ fsys = AllFiles(ReportTree)
     \/ /\ \E f \in FewFlags : submit = NewSubmit(GoodArgs(f), "default")
        /\ envs \in EarlyEnvs
        /\ fsys = AllFiles(ReportTree)
     \/ /\ \E v \in ArgLists(MaxArgs) :
             submit = NewSubmit(ArgsOf(v), "default")
        /\ envs = Credentials
        /\ \E t \in Trees : fsys = AllFiles(t)
  /\ pc = "Submit.Init"
  /\ err = NoError
  /\ resolver = NoResolver
  /\ tags = <<>>
  /\ quotaID = EmptyString
  /\ clock = 0
  /\ version = ZeroVersion
  /\ log = NewSubmitLog(version)
  /\ pm = NoVariant
  /\ m = ZeroMetadata
  /\ lookupErr = NoError
  /\ calls = [lookup |-> 0, clock |-> 0]
  /\ yaml = <<>>
  /\ yamlErr = NoError
  /\ lookups = <<>>
  /\ encoder = "none"
  /\ previous = NoRun
  /\ wall = 0
  /\ tar = NoTar
  /\ run = NotRunning

\* err := c.Init(os.Args[2:], envs, submit.NewCommitResolverFactory(log))
SubmitInit ==
  /\ pc = "Submit.Init"
  /\ \E r \in {SubmitInitResult(submit, envs, fsys)} :
        /\ submit' = r.s
        /\ err' = r.err
        /\ log' = log \o r.log
  /\ pc' = "Submit.Init returned"
  /\ UNCHANGED <<envs, fsys, resolver, tags, quotaID, clock, version, pm, m,
                 lookupErr, calls, yaml, yamlErr, lookups, encoder, previous, wall,
                 tar, run>>

SubmitNext == SubmitInit

SubmitSpec == SubmitStart /\ [][SubmitNext]_vars

---------------------------------------------------------------------------
(* internal/tar: a Tar collects entries in the order they are written.  An *)
(* entry of the archive is a header: of a directory, of a file (followed   *)
(* by the file's content) or the trailer that Close writes.                *)

MaxWrites == 3

\* tar.Create(out); missing is the number of bytes the tar.Writer still
\* expects for the entry it wrote last, and calls is the history of the
\* calls made on the Tar, each with the number of entries written by then
Create ==
  [dirs |-> {}, out |-> <<>>, writer |-> "open", missing |-> 0, calls |-> <<>>]

Header(typ, name) == [typ |-> typ, name |-> name]
TarReturn(t, error) == [t |-> t, err |-> error, crash |-> "none"]
\* a method called through the nil writer that Close left behind
TarPanic(t) == [t |-> t, err |-> NoError, crash |-> "panic"]
\* the error of tar.Writer.Flush for an entry that was not written in full
MissedWriting(n) == <<"archive/tar: missed writing bytes", n>>

\* Tar.writeHeader(info, dest): tar.FileInfoHeader makes the header of a
\* directory or of a regular file with its size, whatever dest is, and
\* tar.Writer.WriteHeader refuses it while bytes of the entry before are
\* missing
writeHeader(t, info, dest) ==
  IF t.writer = "nil" THEN TarPanic(t)
  ELSE IF t.missing > 0 THEN TarReturn(t, MissedWriting(t.missing))
  ELSE TarReturn([t EXCEPT !.out = Append(@, Header(IF info.dir THEN "dir"
                                                    ELSE "file", dest)),
                           !.missing = info.size],
                 NoError)

\* Tar.Write from os.Open(src) on: io.Copy writes the bytes of the file
WriteContent(t, src, info) ==
  IF info.unreadable THEN TarReturn(t, <<"open", src, "permission denied">>)
  ELSE IF info.dir THEN TarReturn(t, <<"read", src, "is a directory">>)
  ELSE TarReturn([t EXCEPT !.missing = 0], NoError)
WriteFileHeader(h, src, info) ==
  IF h.err # NoError \/ h.crash # "none" THEN h
  ELSE WriteContent(h.t, src, info)
\* Tar.Write from os.Lstat(src) on
WriteFile(t, src, dest, info) ==
  IF ~info.ok THEN TarReturn(t, <<"lstat", src, info.err>>)
  ELSE WriteFileHeader(writeHeader(t, info, dest), src, info)
WriteDirHeader(h, files, src, dest) ==
  IF h.err # NoError \/ h.crash # "none" THEN h
  ELSE WriteFile([h.t EXCEPT !.dirs = @ \cup {Dir(dest)}], src, dest,
                 Stat(files, src))
\* Tar.Write writing the header for the directory of dest, made from what
\* os.Lstat finds at the directory of src
WriteDir(t, files, src, dest, dirinfo) ==
  IF ~dirinfo.ok THEN TarReturn(t, <<"lstat", Dir(src), dirinfo.err>>)
  ELSE WriteDirHeader(writeHeader(t, dirinfo, Dir(dest)), files, src, dest)

\* Tar.Write writing the directory's header whether or not the directory
\* was written before.
WriteRepeatingHeader(t, files, src, dest) ==
  IF Dir(dest) # sDot
  THEN WriteDir(t, files, src, dest, Stat(files, Dir(src)))
  ELSE WriteFile(t, src, dest, Stat(files, src))

\* Tar.Write(src, dest): [t, err, crash]
Write(t, files, src, dest) ==
  IF Dir(dest) \notin t.dirs /\ Dir(dest) # sDot
  THEN WriteDir(t, files, src, dest, Stat(files, Dir(src)))
  ELSE WriteFile(t, src, dest, Stat(files, src))

\* Tar.Close(): [t, err, crash]; tar.Writer.Close writes the trailer unless
\* bytes of the last entry are missing
Close(t) ==
  IF t.writer = "nil" THEN TarReturn(t, NoError)
  ELSE IF t.missing > 0
  THEN TarReturn([t EXCEPT !.writer = "nil"], MissedWriting(t.missing))
  ELSE TarReturn([t EXCEPT !.writer = "nil",
                           !.out = Append(@, Header("trailer", EmptyString))],
                 NoError)

\* the sources and destinations drawn:
\* a report, a missing file, a file of a missing directory, a path through
\* a regular file, a directory, and a directory that cannot be opened
sOrphan == <<"x", "/", "y">>
sUnder == sReport \o <<"/", "q">>
Sources == {sReport, sMissing, sOrphan, sUnder, sD, sE}
TarTree ==
  [i \in 1..Len(ReportTree) |->
     IF ReportTree[i].path = sE
     THEN [ReportTree[i] EXCEPT !.unreadable = TRUE] ELSE ReportTree[i]]
\* two spellings of one directory, a directory in it, and the top level
Destinations ==
  {<<"t", "/", "a">>, <<"t", "/", "s", "/", "c">>,
   <<".", "/", "t", "/", "/", "e">>, <<".", "/", "g">>}

TarStart ==
  /\ tar = Create
  /\ fsys = AllFiles(TarTree)
  /\ pc = "Tar"
  /\ err = NoError
  /\ submit = NoSubmit
  /\ run = NotRunning
  /\ envs = EmptyEnv
  /\ log = <<>>
  /\ resolver = NoResolver
  /\ tags = <<>>
  /\ quotaID = EmptyString
  /\ clock = 0
  /\ version = ZeroVersion
  /\ pm = NoVariant
  /\ m = ZeroMetadata
  /\ lookupErr = NoError
  /\ calls = [lookup |-> 0, clock |-> 0]
  /\ yaml = <<>>
  /\ yamlErr = NoError
  /\ lookups = <<>>
  /\ encoder = "none"
  /\ previous = NoRun
  /\ wall = 0

TarUnchanged ==
  UNCHANGED <<envs, resolver, tags, quotaID, clock, version, pm, m, lookupErr,
              log, calls, yaml, yamlErr, lookups, encoder, previous, wall, submit,
              fsys, run>>

\* err = t.Write(src, dest)
TarWrite ==
  /\ pc = "Tar"
  /\ Len(tar.calls) < MaxWrites
  /\ \E src \in Sources, dest \in Destinations :
       \E r \in {Write(tar, fsys, src, dest)} :
          /\ tar' = [r.t EXCEPT !.calls =
                        Append(@, [op |-> "Write", src |-> src, dest |-> dest,
                                   err |-> r.err, crash |-> r.crash,
                                   written |-> Len(r.t.out)])]
          /\ err' = r.err
          /\ pc' = IF r.crash # "none" THEN r.crash ELSE pc
  /\ TarUnchanged

\* err = t.Close()
TarClose ==
  /\ pc = "Tar"
  /\ Len(tar.calls) < MaxWrites
  /\ \E r \in {Close(tar)} :
        /\ tar' = [r.t EXCEPT !.calls =
                      Append(@, [op |-> "Close", src |-> EmptyString,
                                 dest |-> EmptyString, err |-> r.err,
                                 crash |-> r.crash,
                                 written |-> Len(r.t.out)])]
        /\ err' = r.err
        /\ pc' = pc
  /\ TarUnchanged

TarNext == TarWrite \/ TarClose

TarSpec == TarStart /\ [][TarNext]_vars

---------------------------------------------------------------------------
(* coveragePathsInferred: the names looked for and the paths left out.  A  *)
(* pattern of the block list is a regular expression made of literal text  *)
(* and .*, with or without $ at its end: it is kept as the literal pieces  *)
(* between the .* and whether it is anchored at the end.                   *)

\* coverageFileTypes
coverageFileTypes ==
  <<<<"*","c","o","v","e","r","a","g","e","*",".","*">>,
    <<"n","o","s","e","t","e","s","t","s",".","x","m","l">>,
    <<"j","a","c","o","c","o","*",".","x","m","l">>,
    <<"c","l","o","v","e","r",".","x","m","l">>,
    <<"r","e","p","o","r","t",".","x","m","l">>,
    <<"*",".","c","o","d","e","c","o","v",".","!","(","e","x","e",")">>,
    <<"c","o","d","e","c","o","v",".","!","(","e","x","e",")">>,
    <<"*","c","o","b","e","r","t","u","r","a",".","x","m","l">>,
    <<"e","x","c","o","v","e","r","a","l","l","s",".","j","s","o","n">>,
    <<"l","u","a","c","o","v",".","r","e","p","o","r","t",".","o","u","t">>,
    <<"c","o","v","e","r","a","g","e","-","f","i","n","a","l",".","j","s","o","n">>,
    <<"n","a","x","s","i",".","i","n","f","o">>,
    <<"l","c","o","v",".","i","n","f","o">>,
    <<"l","c","o","v",".","d","a","t">>,
    <<"*",".","l","c","o","v">>,
    <<"*",".","c","l","o","v","e","r">>,
    <<"c","o","v","e","r",".","o","u","t">>,
    <<"g","c","o","v",".","i","n","f","o">>,
    <<"*",".","g","c","o","v">>,
    <<"*",".","l","s","t">>,
    <<"t","e","s","t","_","c","o","v",".","x","m","l">>>>

Pattern(pieces, anchored) == [pieces |-> pieces, anchored |-> anchored]

\* fileBlocklistMatchers
fileBlocklistMatchers ==
  <<Pattern(<<<<"_","_","p","y","c","a","c","h","e","_","_">>>>, FALSE),
    Pattern(<<<<"n","o","d","e","_","m","o","d","u","l","e","s","/">>, <<>>>>, FALSE),
    Pattern(<<<<"v","e","n","d","o","r">>>>, FALSE),
    Pattern(<<<<".","c","i","r","c","l","e","c","i">>>>, FALSE),
    Pattern(<<<<".","g","i","t">>>>, FALSE),
    Pattern(<<<<".","g","i","t","i","g","n","o","r","e">>>>, FALSE),
    Pattern(<<<<".","n","v","m","r","c">>>>, FALSE),
    Pattern(<<<<".","n","y","c","_","o","u","t","p","u","t">>>>, FALSE),
    Pattern(<<<<".","t","o","x">>>>, FALSE),
    Pattern(<<<<>>, <<".","a","m">>>>, TRUE),
    Pattern(<<<<>>, <<".","b","a","s","h">>>>, TRUE),
    Pattern(<<<<>>, <<".","b","a","t">>>>, TRUE),
    Pattern(<<<<>>, <<".","b","w">>>>, TRUE),
    Pattern(<<<<>>, <<".","c","f","g">>>>, TRUE),
    Pattern(<<<<>>, <<".","c","l","a","s","s">>>>, TRUE),
    Pattern(<<<<>>, <<".","c","m","a","k","e">>>>, TRUE),
    Pattern(<<<<>>, <<".","c","m","a","k","e">>>>, TRUE),
    Pattern(<<<<>>, <<".","c","o","n","f">>>>, TRUE),
    Pattern(<<<<>>, <<".","c","o","v","e","r","a","g","e">>>>, TRUE),
    Pattern(<<<<>>, <<".","c","p">>>>, TRUE),
    Pattern(<<<<>>, <<".","c","p","p">>>>, TRUE),
    Pattern(<<<<>>, <<".","c","r","t">>>>, TRUE),
    Pattern(<<<<>>, <<".","c","s","s">>>>, TRUE),
    Pattern(<<<<>>, <<".","c","s","v">>>>, TRUE),
    Pattern(<<<<>>, <<".","c","s","v">>>>, TRUE),
    Pattern(<<<<>>, <<".","d","a","t","a">>>>, TRUE),
    Pattern(<<<<>>, <<".","d","b">>>>, TRUE),
    Pattern(<<<<>>, <<".","d","o","x">>>>, TRUE),
    Pattern(<<<<>>, <<".","e","c">>>>, TRUE),
    Pattern(<<<<>>, <<".","e","c">>>>, TRUE),
    Pattern(<<<<>>, <<".","e","g","g">>>>, TRUE),
    Pattern(<<<<>>, <<".","e","g","g","-","i","n","f","o">>>>, TRUE),
    Pattern(<<<<>>, <<".","e","l">>>>, TRUE),
    Pattern(<<<<>>, <<".","e","n","v">>>>, TRUE),
    Pattern(<<<<>>, <<".","e","r","b">>>>, TRUE),
    Pattern(<<<<>>, <<".","e","x","e">>>>, TRUE),
    Pattern(<<<<>>, <<".","f","t","l">>>>, TRUE),
    Pattern(<<<<>>, <<".","g","i","f">>>>, TRUE),
    Pattern(<<<<>>, <<".","g","o">>>>, TRUE),
    Pattern(<<<<>>, <<".","g","r","a","d","l","e">>>>, TRUE),
    Pattern(<<<<>>, <<".","g","z">>>>, TRUE),
    Pattern(<<<<>>, <<".","h">>>>, TRUE),
    Pattern(<<<<>>, <<".","h","t","m","l">>>>, TRUE),
    Pattern(<<<<>>, <<".","i","n">>>>, TRUE),
    Pattern(<<<<>>, <<".","j","a","d","e">>>>, TRUE),
    Pattern(<<<<>>, <<".","j","a","r">>, <<>>>>, TRUE),
    Pattern(<<<<>>, <<".","j","p","e","g">>>>, TRUE),
    Pattern(<<<<>>, <<".","j","p","g">>>>, TRUE),
    Pattern(<<<<>>, <<".","j","s">>>>, TRUE),
    Pattern(<<<<>>, <<".","l","e","s","s">>>>, TRUE),
    Pattern(<<<<>>, <<".","l","o","g">>>>, TRUE),
    Pattern(<<<<>>, <<".","m","4">>>>, TRUE),
    Pattern(<<<<>>, <<".","m","a","k">>, <<>>>>, TRUE),
    Pattern(<<<<>>, <<".","m","a","p">>>>, TRUE),
    Pattern(<<<<>>, <<".","m","a","r","k","e","r">>>>, TRUE),
    Pattern(<<<<>>, <<".","m","d">>>>, TRUE),
    Pattern(<<<<>>, <<".","o">>>>, TRUE),
    Pattern(<<<<>>, <<".","p","1","2">>>>, TRUE),
    Pattern(<<<<>>, <<".","p","e","m">>>>, TRUE),
    Pattern(<<<<>>, <<".","p","n","g">>>>, TRUE),
    Pattern(<<<<>>, <<".","p","o","m">>, <<>>>>, TRUE),
    Pattern(<<<<>>, <<".","p","r","o","f","d","a","t","a">>>>, TRUE),
    Pattern(<<<<>>, <<".","p","r","o","t","o">>>>, TRUE),
    Pattern(<<<<>>, <<".","p","s","1">>>>, TRUE),
    Pattern(<<<<>>, <<".","p","t","h">>>>, TRUE),
    Pattern(<<<<>>, <<".","p","y">>>>, TRUE),
    Pattern(<<<<>>, <<".","p","y","c">>>>, TRUE),
    Pattern(<<<<>>, <<".","p","y","o">>>>, TRUE),
    Pattern(<<<<>>, <<".","r","b">>>>, TRUE),
    Pattern(<<<<>>, <<".","r","s","p">>>>, TRUE),
    Pattern(<<<<>>, <<".","r","s","t">>>>, TRUE),
    Pattern(<<<<>>, <<".","r","u">>>>, TRUE),
    Pattern(<<<<>>, <<".","s","b","t">>>>, TRUE),
    Pattern(<<<<>>, <<".","s","c","s","s">>>>, TRUE),
    Pattern(<<<<>>, <<".","s","c","s","s">>>>, TRUE),
    Pattern(<<<<>>, <<".","s","e","r","i","a","l","i","z","e","d">>>>, TRUE),
    Pattern(<<<<>>, <<".","s","h">>>>, TRUE),
    Pattern(<<<<>>, <<".","s","n","a","p","s","h","o","t">>>>, TRUE),
    Pattern(<<<<>>, <<".","s","q","l">>>>, TRUE),
    Pattern(<<<<>>, <<".","s","v","g">>>>, TRUE),
    Pattern(<<<<>>, <<".","t","a","r",".","t","z">>>>, TRUE),
    Pattern(<<<<>>, <<".","t","e","m","p","l","a","t","e">>>>, TRUE),
    Pattern(<<<<>>, <<".","t","s">>>>, TRUE),
    Pattern(<<<<>>, <<".","w","h","l">>>>, TRUE),
    Pattern(<<<<>>, <<".","x","c","c","o","n","f","i","g">>>>, TRUE),
    Pattern(<<<<>>, <<".","x","c","o","v","e","r","a","g","e",".">>, <<>>>>, TRUE),
    Pattern(<<<<>>, <<"/","c","l","a","s","s","y","c","l","e","/","r","e","p","o","r","t",".","x","m","l">>>>, TRUE),
    Pattern(<<<<>>, <<"c","o","d","e","c","o","v",".","y","m","l">>>>, TRUE),
    Pattern(<<<<>>, <<"~">>>>, TRUE),
    Pattern(<<<<>>, <<".","c","o","v","e","r","a","g","e","r","c">>>>, TRUE),
    Pattern(<<<<".","c","o","v","e","r","a","g","e">>, <<>>>>, TRUE),
    Pattern(<<<<"c","o","d","e","c","o","v",".","S","H","A","2","5","6","S","U","M">>>>, TRUE),
    Pattern(<<<<"c","o","d","e","c","o","v",".","S","H","A","2","5","6","S","U","M",".","s","i","g">>>>, TRUE),
    Pattern(<<<<"c","o","v","e","r","a","g","e","-","s","u","m","m","a","r","y",".","j","s","o","n">>>>, TRUE),
    Pattern(<<<<"c","r","e","a","t","e","d","F","i","l","e","s",".","l","s","t">>>>, TRUE),
    Pattern(<<<<"f","u","l","l","L","o","c","a","l","e","N","a","m","e","s",".","l","s","t">>>>, TRUE),
    Pattern(<<<<"i","n","c","l","u","d","e",".","l","s","t">>>>, TRUE),
    Pattern(<<<<"i","n","p","u","t","F","i","l","e","s",".","l","s","t">>>>, TRUE),
    Pattern(<<<<"p","h","p","u","n","i","t","-","c","o","d","e","-","c","o","v","e","r","a","g","e",".","x","m","l">>>>, TRUE),
    Pattern(<<<<"p","h","p","u","n","i","t","-","c","o","v","e","r","a","g","e",".","x","m","l">>>>, TRUE),
    Pattern(<<<<"r","e","m","a","p","I","n","s","t","a","n","b","u","l",".","c","o","v","e","r","a","g","e">>, <<".","j","s","o","n">>>>, TRUE),
    Pattern(<<<<"s","c","o","v","e","r","a","g","e",".","m","e","a","s","u","r","e","m","e","n","t","s",".">>, <<>>>>, TRUE),
    Pattern(<<<<"t","e","s","t","-","r","e","s","u","l","t","-">>, <<"-","c","o","d","e","c","o","v","e","r","a","g","e",".","j","s","o","n">>>>, TRUE),
    Pattern(<<<<"t","e","s","t","_">>, <<"_","c","o","v","e","r","a","g","e",".","t","x","t">>>>, TRUE),
    Pattern(<<<<"t","e","s","t","r","u","n","n","e","r","-","c","o","v","e","r","a","g","e">>, <<>>>>, TRUE),
    Pattern(<<<<>>, <<".">>, <<"j","s">>>>, TRUE),
    Pattern(<<<<".","y","a","r","n">>>>, TRUE),
    Pattern(<<<<>>, <<".","z","i","p">>>>, TRUE)>>

\* regexp.MatchString for such a pattern.  The match may begin anywhere;
\* the . of .* stands for any character but a newline, so no newline lies
\* between two pieces that follow each other; $ is the end of the text.

\* the characters of s from index a to index b are what .* can stand for
NoNewline(s, a, b) == \A k \in a..b : s[k] # "\n"
\* the literal piece stands in s at index i
PieceAt(s, piece, i) == SubSeq(s, i, i + Len(piece) - 1) = piece
\* the pieces that follow a .* match the text from index from on
RECURSIVE MatchAfter(_, _, _, _)
MatchAfter(s, pieces, anchored, from) ==
  IF pieces = <<>> THEN ~anchored \/ from = Len(s) + 1
  ELSE \E i \in from..(Len(s) - Len(pieces[1]) + 1) :
          /\ NoNewline(s, from, i - 1)
          /\ PieceAt(s, pieces[1], i)
          /\ MatchAfter(s, Tail(pieces), anchored, i + Len(pieces[1]))
MatchPieces(s, pieces, anchored) ==
  \E i \in 1..(Len(s) - Len(pieces[1]) + 1) :
     /\ PieceAt(s, pieces[1], i)
     /\ MatchAfter(s, Tail(pieces), anchored, i + Len(pieces[1]))

\* the path matches a pattern of the ignore list
Ignored(path, ignoreList) ==
  \E i \in 1..Len(ignoreList) :
     MatchPieces(path, ignoreList[i].pieces, ignoreList[i].anchored)

\* locateFiles(baseDir, includeList, ignoreList): the walk leaves out every
\* ignored path, and everything below an ignored directory; a file is taken
\* once for every pattern of the include list its name matches
TimesMatched(name, includeList) ==
  Cardinality({i \in 1..Len(includeList) : Match(includeList[i], name).matched})
Copies(x, n) == [i \in 1..n |-> x]
\* fn is not called for what lies below a directory it answered with
\* filepath.SkipDir
Skipped(visited, i, ignoreList) ==
  \E j \in 1..(i - 1) :
     /\ visited[j].dir
     /\ Ignored(visited[j].path, ignoreList)
     /\ IsBelow(visited[i].real, visited[j].real)
\* the call of fn for an entry that can be read: the paths it adds to
\* matched
locateNext(e, includeList, ignoreList) ==
  IF Ignored(e.path, ignoreList) \/ e.dir THEN <<>>
  ELSE Copies(e.path, TimesMatched(e.name, includeList))
\* the sequences one after the other
RECURSIVE Concat(_)
Concat(seqs) ==
  IF Len(seqs) = 0 THEN <<>> ELSE seqs[1] \o Concat(Tail(seqs))
\* the walk function called for the entries before visited[n]
locateBefore(visited, n, includeList, ignoreList) ==
  Concat([i \in 1..(n - 1) |->
            IF Skipped(visited, i, ignoreList) THEN <<>>
            ELSE locateNext(visited[i], includeList, ignoreList)])
\* the walk ends at the first entry that fn is called for with an error,
\* failing being the entries that it would be called for so
locateTo(visited, failing, includeList, ignoreList) ==
  IF failing = {}
  THEN [paths |-> locateBefore(visited, Len(visited) + 1, includeList,
                               ignoreList),
        err |-> NoError]
  ELSE [paths |-> locateBefore(visited,
                               CHOOSE i \in failing : \A j \in failing : i <= j,
                               includeList, ignoreList),
        err |-> <<"open",
                  visited[CHOOSE i \in failing : \A j \in failing : i <= j].path,
                  "permission denied">>]
locateFrom(visited, includeList, ignoreList) ==
  locateTo(visited,
           {i \in 1..Len(visited) :
              visited[i].unreadable /\ ~Skipped(visited, i, ignoreList)},
           includeList, ignoreList)
locateAmong(walk, includeList, ignoreList) ==
  IF walk.err # NoError THEN [paths |-> <<>>, err |-> walk.err]
  ELSE locateFrom(walk.visited, includeList, ignoreList)
locateFiles(files, baseDir, includeList, ignoreList) ==
  locateAmong(Walk(files, baseDir), includeList, ignoreList)

\* Submit.coveragePathsInferred(): [paths, err]
coveragePathsFound(filePaths) ==
  IF filePaths.err # NoError THEN [paths |-> <<>>, err |-> filePaths.err]
  ELSE filePaths
coveragePathsInferred(s, files) ==
  coveragePathsFound(locateFiles(files,
                                 IF s.repositoryPath = "" THEN sDot
                                 ELSE PathChars(s.repositoryPath),
                                 coverageFileTypes, fileBlocklistMatchers))

\* the paths bundle writes when the auto-discovery has run
Inferred(given, inferred) ==
  [paths |-> given \o inferred.paths, err |-> inferred.err, inferred |-> TRUE]

\* The choice of bundle with the auto-discovery run in every case.
CoveragePathsAlwaysInferred(s, files) ==
  Inferred(s.coveragePaths, coveragePathsInferred(s, files))

\* bundle: the coverage paths it writes: those given, or else, unless
\* disabled, those inferred; err is what coveragePathsInferred left in err
CoveragePaths(s, files) ==
  IF Len(s.coveragePaths) = 0 /\ ~s.disableCoverageAutoDiscovery
  THEN Inferred(<<>>, coveragePathsInferred(s, files))
  ELSE [paths |-> s.coveragePaths, err |-> NoError, inferred |-> FALSE]

sTestResults == <<"t","e","s","t","_","r","e","s","u","l","t","s","/">>
sCoverageDir == <<"c","o","v","e","r","a","g","e","/">>
sBuildpulseYml == <<"b","u","i","l","d","p","u","l","s","e",".","y","m","l">>
sBuildpulseLog == <<"b","u","i","l","d","p","u","l","s","e",".","l","o","g">>
sBuildpulseDash == <<"/","b","u","i","l","d","p","u","l","s","e","-">>
sDotGz == <<".","g","z">>

\* the files os.CreateTemp makes
TempYml == <<"/","t","/","1",".","y","m","l">>
TempTar == <<"/","t","/","2",".","t","a","r">>
TempLog == <<"/","t","/","3",".","l","o","g">>
TempGz == <<"/","t","/","4",".","g","z">>
WithTemp(files, names) ==
  [files EXCEPT !.entries =
     @ \o [i \in 1..Len(names) |-> Entry(names[i], FALSE)]]

\* the Write calls of a loop of bundle: src and dest of each path
Under(prefix, paths) ==
  [i \in 1..Len(paths) |-> [src |-> paths[i], dest |-> prefix \o paths[i]]]

\* a result of the Tar beside the lines the logger has been given
Logged(r, lines) ==
  [t |-> r.t, err |-> r.err, crash |-> r.crash, log |-> lines]

\* a loop of bundle: each path is logged and then written, up to the first
\* error: [t, err, crash, log]
RECURSIVE WriteEach(_, _, _, _)
WriteRest(r, files, pairs, lines) ==
  IF r.err # NoError \/ r.crash # "none" THEN Logged(r, lines)
  ELSE WriteEach(r.t, files, pairs, lines)
WriteEach(t, files, pairs, lines) ==
  IF Len(pairs) = 0 THEN Logged(TarReturn(t, NoError), lines)
  ELSE WriteRest(Write(t, files, pairs[1].src, pairs[1].dest), files,
                 Tail(pairs), Append(lines, <<"-", pairs[1].src>>))

\* what may fail in Run apart from NewMetadata and the Tar
Faults == {"none", "yml", "tar", "log", "gz", "put"}
TempError(what) == <<"CreateTemp", what>>

\* the return of bundle: the deferred t.Close() has run
BundleReturn(t, error, inferred, lines, temps) ==
  [tarpath |-> IF error = NoError THEN TempTar ELSE EmptyString,
   err |-> error, t |-> Close(t).t, inferred |-> inferred, log |-> lines,
   temps |-> temps]

\* bundle after buildpulse.log was written, with the result r4 of that
BundleLog(cov, r4) ==
  BundleReturn(r4.t, r4.err, cov.inferred, r4.log,
               <<TempYml, TempTar, TempLog>>)

\* bundle after buildpulse.yml was written, with the result r3 of that
BundleYml(files, fault, cov, r3) ==
  IF r3.err # NoError
  THEN BundleReturn(r3.t, r3.err, cov.inferred, r3.log, <<TempYml, TempTar>>)
  ELSE IF fault = "log"
  THEN BundleReturn(r3.t, TempError("log"), cov.inferred, r3.log,
                    <<TempYml, TempTar>>)
  ELSE BundleLog(cov,
                 Logged(Write(r3.t,
                              WithTemp(files, <<TempYml, TempTar, TempLog>>),
                              TempLog, sBuildpulseLog),
                        r3.log \o <<<<"Flushing log to", TempLog>>,
                                    <<"Adding buildpulse.log to tarball">>>>))

\* bundle after the coverage files were written, with the result r2 of that
BundleCoverage(files, fault, cov, r2) ==
  IF r2.err # NoError
  THEN BundleReturn(r2.t, r2.err, cov.inferred, r2.log, <<TempYml, TempTar>>)
  ELSE BundleYml(files, fault, cov,
                 Logged(Write(r2.t, WithTemp(files, <<TempYml, TempTar>>),
                              TempYml, sBuildpulseYml),
                        Append(r2.log, <<"Adding buildpulse.yml to tarball">>)))

\* bundle after the test results were written, with the result r1 of that
\* and the coverage paths cov it goes on to
BundleResults(files, fault, cov, r1) ==
  IF r1.err # NoError
  THEN BundleReturn(r1.t, r1.err, FALSE, r1.log, <<TempYml, TempTar>>)
  ELSE BundleCoverage(files, fault, cov,
                      IF cov.err = NoError /\ Len(cov.paths) > 0
                      THEN WriteEach(r1.t,
                                     WithTemp(files, <<TempYml, TempTar>>),
                                     Under(sCoverageDir, cov.paths), r1.log)
                      ELSE r1)

\* Submit.bundle() from the first os.CreateTemp on: [tarpath, err, t,
\* inferred, log, temps], log being the lines it gives the logger and temps
\* the files it has created
BundleArchive(s, files, fault) ==
  IF fault = "yml"
  THEN [tarpath |-> EmptyString, err |-> TempError(fault), t |-> NoTar,
        inferred |-> FALSE, log |-> <<>>, temps |-> <<>>]
  ELSE IF fault = "tar"
  THEN [tarpath |-> EmptyString, err |-> TempError(fault), t |-> NoTar,
        inferred |-> FALSE, log |-> <<<<"Writing metadata to", TempYml>>>>,
        temps |-> <<TempYml>>]
  ELSE BundleResults(files, fault, CoveragePaths(s, files),
                     WriteEach(Create, WithTemp(files, <<TempYml, TempTar>>),
                               Under(sTestResults, s.paths),
                               <<<<"Writing metadata to", TempYml>>,
                                 <<"Preparing tarball of test results:">>>>))

\* toGz(src): [dest, err]
toGz(src, fault) ==
  IF fault = "gz" THEN [dest |-> EmptyString, err |-> TempError("gz")]
  ELSE [dest |-> TempGz, err |-> NoError]

\* putS3Object(...): the error of the upload, if any
putS3Object(bucket, objectKey, src, fault) ==
  IF fault = "put" THEN <<"upload failed", bucket>> ELSE NoError

\* the key upload makes from the IDs of the account and the repository and
\* the generated ID
ObjectKey(s, id) ==
  FormatUint(s.accountID) \o sSlash \o FormatUint(s.repositoryID)
  \o sBuildpulseDash \o id \o sDotGz

\* Submit.upload returning the key it made whether or not the put failed.
uploadKeepingKey(s, path, id, fault) ==
  [key |-> ObjectKey(s, id),
   err |-> putS3Object(s.bucket, ObjectKey(s, id), path, fault)]

\* Submit.upload(path): [key, err]
upload(s, path, id, fault) ==
  LET key == ObjectKey(s, id)
      error == putS3Object(s.bucket, key, path, fault)
  IN IF error # NoError THEN [key |-> EmptyString, err |-> error]
     ELSE [key |-> key, err |-> NoError]

---------------------------------------------------------------------------
(* Submit.Run on a Submit that Init has populated: bundle (NewMetadata,    *)
(* MarshalYAML, the tarball), toGz, upload.  run.steps is the history of   *)
(* the steps Run has entered.                                              *)

\* the tree of a repository with coverage files in it: two that are
\* looked for, one of them below d, one below vendor, which is ignored,
\* one whose name matches two patterns of the list, one that the pattern
\* test_.*_coverage\.txt$ of the block list matches, and one that it does
\* not match because a newline stands between test_ and _coverage.txt
sCoverOut == <<"c","o","v","e","r",".","o","u","t">>
sLcovInfo == <<"d","/","l","c","o","v",".","i","n","f","o">>
sTwice == <<"d","/","x","c","o","v","e","r","a","g","e",".","l","s","t">>
sBlocked ==
  <<"t","e","s","t","_","a","_","c","o","v","e","r","a","g","e",".","t","x","t">>
sTwoLines ==
  <<"t","e","s","t","_","\n","_","c","o","v","e","r","a","g","e",".","t","x","t">>
CoverageTree ==
  <<Entry(sCoverOut, FALSE), Entry(sD, TRUE), Entry(sLcovInfo, FALSE),
    Entry(sReport, FALSE), Entry(sTwice, FALSE), Entry(sBlocked, FALSE),
    Entry(sTwoLines, FALSE),
    Entry(<<"v","e","n","d","o","r">>, TRUE),
    Entry(<<"v","e","n","d","o","r","/","l","c","o","v",".","i","n","f","o">>,
          FALSE)>>
\* a tree with the report and nothing that is looked for
PlainTree == <<Entry(sD, TRUE), Entry(sReport, FALSE)>>

sTag1 == <<"t","1">>
sTag2 == <<"t","2">>
TagFlags ==
  {<<>>, "tags" :> sTag1, "tags" :> (sTag1 \o <<" ">> \o sTag2),
   "tags" :> (sTag2 \o <<" ", " ">> \o sTag1), "tags" :> EmptyString}
CoverageFlags ==
  {<<>>, "coverage-files" :> sCoverOut,
   "coverage-files" :> (sLcovInfo \o <<" ">> \o sCoverOut),
   "coverage-files" :> sMissing}
AutoFlags == {<<>>, "disable-coverage-auto" :> TRUE}
DirFlags == {<<>>, "repository-dir" :> "d", "quota-id" :> <<"q">>}
RunFlags ==
  {t @@ c @@ a @@ d :
     t \in TagFlags, c \in CoverageFlags, a \in AutoFlags, d \in DirFlags}

\* the environment of a Buildkite build, and one in which no variant's
\* Init succeeds
BuildEnv == Credentials @@ ("BUILDKITE" :> sTrue) @@ BaseEnv(ShaA)
RunEnvs == {BuildEnv, Credentials}

sGeneratedID == <<"0","0","-","0","0">>
NewRun(fault) ==
  [fault |-> fault, id |-> sGeneratedID, steps |-> <<>>, tarpath |-> EmptyString,
   zippath |-> EmptyString, key |-> EmptyString, err |-> NoError,
   inferred |-> FALSE]

\* the state in which main calls Init and, when it returns nil, Run
RunStart ==
  /\ \E flags \in RunFlags, e \in RunEnvs, tree \in {CoverageTree, PlainTree},
        fault \in Faults, enc \in {"none", "provider"} :
       /\ fault # "none" => (enc = "none" /\ e = BuildEnv)
       /\ enc # "none" => e = BuildEnv
       /\ (fault # "none" \/ enc # "none" \/ e # BuildEnv)
            => (flags \in TagFlags \/ flags \in CoverageFlags)
       /\ submit = NewSubmit(GoodArgs(flags), "default")
       /\ envs = e
       /\ fsys = AllFiles(tree)
       /\ run = NewRun(fault)
       /\ encoder = enc
  /\ pc = "Submit.Init"
  /\ tar = NoTar
  /\ err = NoError
  /\ resolver = NoResolver
  /\ tags = <<>>
  /\ quotaID = EmptyString
  /\ clock = 7
  /\ version = [Number |-> <<"v","1",".","2",".","3">>,
                GoOS |-> <<"l","i","n","u","x">>,
                Commit |-> <<"a","b","c">>,
                GoVersion |-> <<"g","o","1",".","1","7">>]
  /\ log = NewSubmitLog(version)
  /\ pm = NoVariant
  /\ m = ZeroMetadata
  /\ lookupErr = NoError
  /\ calls = [lookup |-> 0, clock |-> 0]
  /\ yaml = <<>>
  /\ yamlErr = NoError
  /\ lookups = <<>>
  /\ previous = NoRun
  /\ wall = 0

\* Run calls bundle, which calls NewMetadata with the tags split at the
\* blanks, the quota ID, the environment and the resolver of the Submit
RunBundle ==
  /\ pc = "Submit.Init returned"
  /\ err = NoError
  /\ run # NotRunning
  /\ run.steps = <<>>
  /\ run' = [run EXCEPT !.steps = Append(@, "bundle")]
  /\ tags' = SplitSpaces(submit.tagsString)
  /\ quotaID' = submit.quotaID
  /\ resolver' = submit.commitResolver
  /\ log' = Append(log, <<"Gathering metadata to describe the build">>)
  /\ pc' = "newProviderMetadata"
  /\ UNCHANGED <<envs, clock, version, pm, m, err, lookupErr, calls, yaml,
                 yamlErr, lookups, encoder, previous, wall, submit, fsys, tar>>

\* bundle returns the error of NewMetadata or of MarshalYAML, and Run
\* returns it with the empty key
BundleMetadataFailed ==
  /\ pc \in {"failed", "marshal failed"}
  /\ run.steps = <<"bundle">>
  /\ run' = [run EXCEPT !.err = IF pc = "failed" THEN err ELSE yamlErr]
  /\ pc' = "Run returned"
  /\ UNCHANGED <<envs, resolver, tags, quotaID, clock, version, pm, m, err,
                 lookupErr, log, calls, yaml, yamlErr, lookups, encoder,
                 previous, wall, submit, fsys, tar>>

\* bundle writes the tarball, logging what it writes, and returns its path,
\* or Run returns its error
BundleTarball ==
  /\ pc = "marshalled"
  /\ run.steps = <<"bundle">>
  /\ \E r \in {BundleArchive(submit, fsys, run.fault)} :
       /\ tar' = r.t
       /\ run' = [run EXCEPT !.tarpath = r.tarpath, !.err = r.err,
                             !.inferred = r.inferred]
       /\ log' = log \o r.log
       /\ fsys' = WithTemp(fsys, r.temps)
       /\ pc' = IF r.err # NoError THEN "Run returned" ELSE "toGz"
  /\ UNCHANGED <<envs, resolver, tags, quotaID, clock, version, pm, m, err,
                 lookupErr, calls, yaml, yamlErr, lookups, encoder, previous, wall,
                 submit>>

\* zippath, err := toGz(tarpath)
RunToGz ==
  /\ pc = "toGz"
  /\ LET r == toGz(run.tarpath, run.fault)
     IN /\ run' = [run EXCEPT !.steps = Append(@, "toGz"),
                              !.zippath = r.dest, !.err = r.err]
        /\ fsys' = IF r.err # NoError THEN fsys
                    ELSE WithTemp(fsys, <<r.dest>>)
        /\ pc' = IF r.err # NoError THEN "Run returned" ELSE "upload"
  /\ log' = Append(log, <<"Gzipping tarball", run.tarpath>>)
  /\ UNCHANGED <<envs, resolver, tags, quotaID, clock, version, pm, m, err,
                 lookupErr, calls, yaml, yamlErr, lookups, encoder, previous, wall,
                 submit, tar>>

\* key, err := s.upload(zippath), and the return of Run
RunUpload ==
  /\ pc = "upload"
  /\ LET r == upload(submit, run.zippath, run.id, run.fault)
     IN /\ run' = [run EXCEPT !.steps = Append(@, "upload"),
                              !.key = r.key, !.err = r.err]
        /\ log' = log \o <<<<"Sending to BuildPulse", run.zippath>>>>
                  \o (IF r.err = NoError
                      THEN <<<<"Delivered test results to BuildPulse", r.key>>>>
                      ELSE <<>>)
  /\ pc' = "Run returned"
  /\ UNCHANGED <<envs, resolver, tags, quotaID, clock, version, pm, m, err,
                 lookupErr, calls, yaml, yamlErr, lookups, encoder, previous, wall,
                 submit, fsys, tar>>

RunNext ==
  \/ SubmitInit
  \/ RunBundle
  \/ SelectProvider
  \/ InitProvider
  \/ InitProviderData
  \/ InitCommitData
  \/ InitTimestamp
  \/ InitVersionData
  \/ Return
  \/ Marshal
  \/ BundleMetadataFailed
  \/ BundleTarball
  \/ RunToGz
  \/ RunUpload

RunSpec == RunStart /\ [][RunNext]_vars

---------------------------------------------------------------------------
(* Properties.  The positions of a run:                                    *)

\* newProviderMetadata has chosen the variant
AfterSelect == pc # "newProviderMetadata"

\* pm.Init has returned
AfterInit == pc \notin {"newProviderMetadata", "pm.Init"}

\* initProviderData has filled the provider fields of the Metadata
AfterProviderData ==
  pc \in {"initCommitData", "initTimestamp", "initVersionData", "return",
          "returned", "marshalled", "marshalled twice", "marshal failed"}

\* initCommitData has run
AfterCommitData ==
  pc \in {"initTimestamp", "initVersionData", "return", "returned",
          "marshalled", "marshalled twice", "marshal failed"}

\* the process ended inside NewMetadata instead of returning from it
Aborted == pc \in {"exit", "panic"}

\* the variable that announces a variant
TriggerVar(kind) ==
  CHOOSE v \in TriggerVars : v \in DOMAIN TriggerOf(kind)

\* the trigger of a variant as the switch tests it: a flag equal to "true",
\* or, for Jenkins, CodeBuild, Bitbucket and Azure, a variable that is not empty
TriggerHolds(kind, e) ==
  IF kind \in {"jenkinsMetadata", "awsCodeBuildMetadata", "bitbucketMetadata",
               "azurePipelinesMetadata"}
  THEN Get(e, TriggerVar(kind)) # EmptyString
  ELSE Get(e, TriggerVar(kind)) = sTrue

\* the trigger of a variant when every variable after the first three only
\* has to be non-empty
NonEmptyTriggerHolds(kind, e) ==
  IF kind \in {"buildkiteMetadata", "circleMetadata", "githubMetadata"}
  THEN Get(e, TriggerVar(kind)) = sTrue
  ELSE Get(e, TriggerVar(kind)) # EmptyString

\* the positions in Kinds of the variants with a trigger (custom has none)
Triggered == 1..(Len(Kinds) - 1)

\* the first variant in the fixed order whose trigger holds, else custom
FirstMatch(e) ==
  LET holds == {i \in Triggered : TriggerHolds(Kinds[i], e)}
  IN IF holds = {} THEN "customMetadata"
     ELSE Kinds[CHOOSE i \in holds : \A j \in holds : i <= j]

\* C1: whatever the environment, the variant newProviderMetadata selects is
\* the first in the order buildkite, circleci, github-actions, jenkins,
\* semaphore, travis-ci, webapp.io, aws-codebuild, bitbucket.org,
\* azure-pipelines whose trigger holds, and custom when none holds; with
\* BUILDKITE=true and CIRCLECI=true together it is buildkite.
C1_FirstMatchWins ==
  AfterSelect =>
    /\ pm.kind = FirstMatch(envs)
    /\ \A i, j \in Triggered :
         (i < j /\ TriggerHolds(Kinds[i], envs) /\ TriggerHolds(Kinds[j], envs))
           => pm.kind # Kinds[j]
    /\ (Get(envs, "BUILDKITE") = sTrue /\ Get(envs, "CIRCLECI") = sTrue)
         => (pm.kind = "buildkiteMetadata" /\ Name(pm) = <<"b","u","i","l","d","k","i","t","e">>)

C1_Witness ==
  /\ AfterSelect
  /\ Get(envs, "BUILDKITE") = sTrue
  /\ Get(envs, "CIRCLECI") = sTrue
  /\ pm.kind = "buildkiteMetadata"

\* the variants from semaphore to azure-pipelines
AfterJenkins == {i \in Triggered : i >= 5}

\* C2 as stated: with no earlier match, SEMAPHORE, TRAVIS, WEBAPPIO,
\* CODEBUILD_BUILD_ID, BITBUCKET_BUILD_NUMBER and BUILD_BUILDID each select
\* their variant as soon as they hold any non-empty value.
C2_NonEmptySelects ==
  AfterSelect =>
    \A i \in AfterJenkins :
      (/\ \A j \in 1..(i - 1) : ~NonEmptyTriggerHolds(Kinds[j], envs)
       /\ Get(envs, TriggerVar(Kinds[i])) # EmptyString)
        => pm.kind = Kinds[i]

\* C2, amended: with no earlier match, semaphore, travis-ci and webapp.io are
\* selected exactly when SEMAPHORE, TRAVIS, WEBAPPIO equal "true" (another
\* non-empty value does not select them), and aws-codebuild, bitbucket.org
\* and azure-pipelines exactly when CODEBUILD_BUILD_ID,
\* BITBUCKET_BUILD_NUMBER, BUILD_BUILDID are not empty.
C2_TrueFlagsSelect ==
  AfterSelect =>
    \A i \in AfterJenkins :
      (\A j \in 1..(i - 1) : ~TriggerHolds(Kinds[j], envs))
        => (pm.kind = Kinds[i]
              <=> IF i <= 7 THEN Get(envs, TriggerVar(Kinds[i])) = sTrue
                  ELSE Get(envs, TriggerVar(Kinds[i])) # EmptyString)

C2_Witness ==
  /\ AfterSelect
  /\ Get(envs, "WEBAPPIO") = <<"1">>
  /\ Get(envs, "CODEBUILD_BUILD_ID") = <<"1">>
  /\ pm.kind = "awsCodeBuildMetadata"

\* the variables the custom variant requires, in the order of its fields
RequiredCustomVars ==
  <<"GIT_BRANCH", "GIT_COMMIT", "BUILD_URL", "ORGANIZATION_NAME", "REPOSITORY_NAME">>

\* those of them that are unset or empty in e, in that order
RECURSIVE MissingFrom(_, _)
MissingFrom(e, i) ==
  IF i > Len(RequiredCustomVars) THEN <<>>
  ELSE (IF Get(e, RequiredCustomVars[i]) = EmptyString
        THEN <<RequiredCustomVars[i]>> ELSE <<>>) \o MissingFrom(e, i + 1)

\* the text that names the variables vs as empty, joined with "; "
RECURSIVE ShouldNotBeEmpty(_)
ShouldNotBeEmpty(vs) ==
  IF vs = <<>> THEN <<>>
  ELSE <<"environment variable \"", vs[1], "\" should not be empty">>
       \o (IF Len(vs) > 1 THEN <<"; ">> ELSE <<>>) \o ShouldNotBeEmpty(Tail(vs))

\* C3: when no provider trigger matches, NewMetadata fails exactly when one
\* of GIT_BRANCH, GIT_COMMIT, BUILD_URL, ORGANIZATION_NAME, REPOSITORY_NAME
\* is unset or empty; the error names those variables and no other, in that
\* order and joined with "; " (all five for the empty environment); with all
\* five set it returns a Metadata whose provider is custom.
C3_CustomRequiresFive ==
  (AfterInit /\ \A i \in Triggered : ~TriggerHolds(Kinds[i], envs)) =>
    /\ pm.kind = "customMetadata"
    /\ ~Aborted
    /\ pc = "failed" <=> MissingFrom(envs, 1) # <<>>
    /\ pc = "failed" =>
         /\ err # NoError
         /\ AggregateErrorText(err) =
              <<"env: ">> \o ShouldNotBeEmpty(MissingFrom(envs, 1))
         /\ m = ZeroMetadata
    /\ DOMAIN envs = {} => Len(err[2]) = Len(RequiredCustomVars)
    /\ pc \in {"returned", "marshalled"} =>
         (err = NoError /\ m.CIProvider = <<"c","u","s","t","o","m">>)

C3_Witness ==
  /\ pc = "failed"
  /\ pm.kind = "customMetadata"
  /\ MissingFrom(envs, 1) = <<"GIT_COMMIT", "REPOSITORY_NAME">>

\* C4: when commitResolver.Lookup returned an error, NewMetadata goes on to
\* return a Metadata and no error; CommitSHA is what the provider's
\* CommitSHA() returned and the other commit fields are zero.
C4_LookupFailureAbsorbed ==
  lookupErr # NoError =>
    /\ AfterCommitData
    /\ err = NoError
    /\ m.CommitSHA = CommitSHA(pm)
    /\ m.AuthoredAt = 0 /\ m.CommittedAt = 0
    /\ m.AuthorEmail = EmptyString /\ m.AuthorName = EmptyString
    /\ m.CommitMessage = EmptyString
    /\ m.CommitterEmail = EmptyString /\ m.CommitterName = EmptyString
    /\ m.TreeSHA = EmptyString

C4_Witness ==
  /\ pc = "returned"
  /\ lookupErr # NoError
  /\ resolver.kind = "Repository"
  /\ pm.kind = "travisMetadata"
  /\ m.CommitSHA = ShaShort

\* the keys of the commit fields other than :commit
CommitDetailKeys ==
  {":author_name", ":author_email", ":committer_name", ":committer_email",
   ":authored_at", ":committed_at", ":commit_message", ":tree"}

\* the field of Metadata serialised under a key
FieldOfKey(key) ==
  metadataFields[CHOOSE i \in 1..Len(metadataFields) :
                   metadataFields[i].key = key]

\* C5 as stated: every serialised document, also after a failed lookup, has
\* :commit with the provider's raw SHA and the keys of the author,
\* committer, dates, message and tree.
C5_CommitKeysAlwaysPresent ==
  pc = "marshalled" =>
    /\ ":commit" \in Keys(yaml)
    /\ ValueOf(yaml, ":commit") = CommitSHA(pm)
    /\ CommitDetailKeys \subseteq Keys(yaml)

\* C5, amended: every serialised document has :commit, holding the
\* Metadata's CommitSHA, which after a failed lookup is the provider's raw
\* SHA; each of the author, committer, date, message and tree keys is
\* emitted exactly when its field is not zero, with the field's value, so
\* after a failed lookup none of them is emitted.
C5_CommitKeyPresentDetailsOmittedWhenEmpty ==
  pc = "marshalled" =>
    /\ ":commit" \in Keys(yaml)
    /\ ValueOf(yaml, ":commit") = m.CommitSHA
    /\ lookupErr # NoError =>
         (ValueOf(yaml, ":commit") = CommitSHA(pm)
          /\ CommitDetailKeys \cap Keys(yaml) = {})
    /\ \A k \in CommitDetailKeys :
         /\ k \in Keys(yaml) <=>
              ~(IF FieldOfKey(k).typ = "time" THEN m[FieldOfKey(k).go] = 0
                ELSE m[FieldOfKey(k).go] = EmptyString)
         /\ k \in Keys(yaml) => ValueOf(yaml, k) = m[FieldOfKey(k).go]

C5_Witness ==
  /\ pc = "marshalled"
  /\ lookupErr # NoError
  /\ ValueOf(yaml, ":commit") = ShaUpper
  /\ ":author_name" \notin Keys(yaml)
  /\ ":tree" \notin Keys(yaml)

\* C6: Check is the value of BUILDPULSE_CHECK_NAME when that variable is
\* present and not empty, and the name of the selected provider when it is
\* absent or empty.
C6_CheckName ==
  AfterProviderData =>
    /\ m.CIProvider = Name(pm)
    /\ m.Check =
         IF "BUILDPULSE_CHECK_NAME" \in DOMAIN envs
            /\ envs["BUILDPULSE_CHECK_NAME"] # EmptyString
         THEN envs["BUILDPULSE_CHECK_NAME"]
         ELSE m.CIProvider

C6_Witness ==
  /\ pc = "returned"
  /\ "BUILDPULSE_CHECK_NAME" \in DOMAIN envs
  /\ envs["BUILDPULSE_CHECK_NAME"] = EmptyString
  /\ m.Check = <<"j","e","n","k","i","n","s">>

\* C7: for github-actions, once Init has returned: Branch() is
\* GITHUB_HEAD_REF when GITHUB_EVENT_NAME is pull_request, whatever
\* GITHUB_REF is; otherwise GITHUB_REF without its refs/heads/ prefix when it
\* has that prefix; otherwise the empty string; and Init has not failed, unless
\* one of the variant's numeric variables is set (to what is not a number).
C7_GithubBranch ==
  (AfterInit /\ pm.kind = "githubMetadata"
   /\ \A j \in TypedRows(pm.kind) :
        Get(envs, FieldsOf(pm.kind)[j].env) = EmptyString) =>
    /\ pc # "failed"
    /\ err = NoError
    /\ Branch(pm) =
         IF Get(envs, "GITHUB_EVENT_NAME") = sPullRequest
         THEN Get(envs, "GITHUB_HEAD_REF")
         ELSE IF Len(Get(envs, "GITHUB_REF")) >= Len(sRefsHeads)
                 /\ SubSeq(Get(envs, "GITHUB_REF"), 1, Len(sRefsHeads)) = sRefsHeads
         THEN SubSeq(Get(envs, "GITHUB_REF"), Len(sRefsHeads) + 1,
                     Len(Get(envs, "GITHUB_REF")))
         ELSE EmptyString
    /\ AfterProviderData => m.Branch = Branch(pm)

C7_Witness ==
  /\ pc = "returned"
  /\ pm.kind = "githubMetadata"
  /\ Get(envs, "GITHUB_EVENT_NAME") = sPullRequest
  /\ Get(envs, "GITHUB_REF") = sRefsHeads \o <<"b">>
  /\ Get(envs, "GITHUB_HEAD_REF") = <<"f","x">>
  /\ m.Branch = <<"f","x">>

\* C8 as stated: whatever CODEBUILD_PUBLIC_BUILD_URL holds, the
\* aws-codebuild variant does not end the process: NewMetadata neither exits
\* nor panics in RepoNameWithOwner.
C8_AwsNeverAborts ==
  pm.kind = "awsCodeBuildMetadata" => ~Aborted

\* a remote of the form ...github.com[:/]<owner>/<repo>[.git]
WellFormedRemote(url) ==
  \E i \in 1..Len(url) :
    /\ Len(url) >= i + Len(sGithubCom)
    /\ SubSeq(url, i, i + Len(sGithubCom) - 1) = sGithubCom
    /\ url[i + Len(sGithubCom)] \in {":", "/"}
    /\ LET rest == SubSeq(url, i + Len(sGithubCom) + 1, Len(url))
           path == IF Len(rest) >= Len(sDotGit)
                      /\ SubSeq(rest, Len(rest) - Len(sDotGit) + 1, Len(rest)) = sDotGit
                   THEN SubSeq(rest, 1, Len(rest) - Len(sDotGit)) ELSE rest
           slashes == {k \in 1..Len(path) : path[k] = "/"}
       IN /\ Cardinality(slashes) = 1
          /\ 1 \notin slashes
          /\ Len(path) \notin slashes

\* the remote a variant hands to nameWithOwnerFromGitURL
RemoteOf(e) ==
  IF pm.kind = "buildkiteMetadata" THEN Get(e, "BUILDKITE_REPO") ELSE Get(e, "GIT_URL")

\* C9 as stated: the two GitHub forms of a remote give OWNER/REPO, and every
\* remote that is not of the form github.com[:/]<owner>/<repo>[.git] gives an
\* error and no name, so that Init fails with that error.
C9_MalformedRemoteIsAnError ==
  (/\ AfterInit
   /\ pm.kind \in {"buildkiteMetadata", "jenkinsMetadata"}
   /\ pm.kind = "jenkinsMetadata" => Get(envs, "BUILD_URL") # EmptyString) =>
    /\ RemoteOf(envs) \in {GitRemoteHTTPS, GitRemoteSSH} =>
         (pc # "failed" /\ RepoNameWithOwner(pm).val = <<"o","/","r">>)
    /\ ~WellFormedRemote(RemoteOf(envs)) =>
         (pc = "failed" /\ err = MalformedURLError(RemoteOf(envs)))

\* the value of a string of decimal digits
DecimalValue(s) ==
  Canonical([i \in 1..Len(s) |-> CHOOSE d \in 0..9 : DigitChars[d + 1] = s[i]])

\* the pull-request number that a variable holding s stands for: its decimal
\* value when it is a string of decimal digits, else zero
DecimalOrZero(s) ==
  IF s # <<>> /\ \A i \in 1..Len(s) : s[i] \in Digits THEN DecimalValue(s)
  ELSE Uint(0)

\* C10 as stated: the pull-request number of the Buildkite and Travis
\* variants is the decimal value of BUILDKITE_PULL_REQUEST or
\* TRAVIS_PULL_REQUEST when that is a string of decimal digits and zero when
\* it is absent, empty or not a number; the variable never makes Init fail.
C10_PullRequestNumberIsDecimal ==
  /\ (AfterInit /\ pm.kind = "travisMetadata") =>
       /\ pc # "failed"
       /\ pm.f.TravisPullRequestNumber =
            DecimalOrZero(Get(envs, "TRAVIS_PULL_REQUEST"))
  /\ (AfterInit /\ pm.kind = "buildkiteMetadata"
        /\ WellFormedRemote(Get(envs, "BUILDKITE_REPO"))) =>
       /\ pc # "failed"
       /\ pm.f.BuildkitePullRequestNumber =
            DecimalOrZero(Get(envs, "BUILDKITE_PULL_REQUEST"))

\* the fields of a Commit other than its SHA
SameButSHA(c, d) == [c EXCEPT !.SHA = EmptyString] = [d EXCEPT !.SHA = EmptyString]

\* C11: every Lookup of a static resolver succeeds and returns the template
\* with the requested SHA in place of the template's; the call leaves the
\* resolver and the answers of earlier calls as they were; Source() is
\* "Static".
C11_StaticLookup ==
  [][resolver.kind = "Static" =>
       /\ resolver' = resolver
       /\ Source(resolver') = <<"S","t","a","t","i","c">>
       /\ Len(lookups') = Len(lookups) + 1
       /\ SubSeq(lookups', 1, Len(lookups)) = lookups
       /\ \A i \in 1..Len(lookups') :
            /\ lookups'[i].err = NoError
            /\ lookups'[i].commit.SHA = lookups'[i].sha
            /\ SameButSHA(lookups'[i].commit, resolver'.commit)]_vars

C11_Witness ==
  /\ resolver = [kind |-> "Static", commit |-> CommitA]
  /\ Len(lookups) = 2
  /\ lookups[1].commit.SHA = ShaB
  /\ lookups[2].commit.SHA = ShaShort
  /\ lookups[2].commit.TreeSHA = CommitA.TreeSHA

\* C12: once initCommitData has run, and so in every Metadata NewMetadata
\* returns, CommitMetadataSource is what the resolver's Source() returns,
\* "Repository" for the repository resolver and "Static" for the static one,
\* whether Lookup succeeded or failed; the serialised document has the key
\* :commit_metadata_source with that value.
C12_SourceRecorded ==
  AfterCommitData =>
    /\ m.CommitMetadataSource = Source(resolver)
    /\ resolver.kind = "Repository" =>
         m.CommitMetadataSource = <<"R","e","p","o","s","i","t","o","r","y">>
    /\ resolver.kind = "Static" =>
         m.CommitMetadataSource = <<"S","t","a","t","i","c">>
    /\ pc = "marshalled" =>
         /\ ":commit_metadata_source" \in Keys(yaml)
         /\ ValueOf(yaml, ":commit_metadata_source") = m.CommitMetadataSource

C12_Witness ==
  /\ pc = "marshalled"
  /\ lookupErr # NoError
  /\ resolver.kind = "Repository"
  /\ ValueOf(yaml, ":commit_metadata_source") =
       <<"R","e","p","o","s","i","t","o","r","y">>

\* the provider names, in the order of detection
ProviderNames ==
  <<<<"b","u","i","l","d","k","i","t","e">>,
    <<"c","i","r","c","l","e","c","i">>,
    <<"g","i","t","h","u","b","-","a","c","t","i","o","n","s">>,
    <<"j","e","n","k","i","n","s">>,
    <<"s","e","m","a","p","h","o","r","e">>,
    <<"t","r","a","v","i","s","-","c","i">>,
    <<"w","e","b","a","p","p",".","i","o">>,
    <<"a","w","s","-","c","o","d","e","b","u","i","l","d">>,
    <<"b","i","t","b","u","c","k","e","t",".","o","r","g">>,
    <<"a","z","u","r","e","-","p","i","p","e","l","i","n","e","s">>,
    <<"c","u","s","t","o","m">>>>

\* the position of a variant in the order of detection
KindIndex(kind) == CHOOSE i \in 1..Len(Kinds) : Kinds[i] = kind

\* C13: the Name() of the selected variant is the one of buildkite,
\* circleci, github-actions, jenkins, semaphore, travis-ci, webapp.io,
\* aws-codebuild, bitbucket.org, azure-pipelines, custom that belongs to the
\* variant detection chose, and once initProviderData has run the
\* Metadata's CIProvider, Branch, BuildURL and RepoNameWithOwner are that
\* variant's Name(), Branch(), BuildURL() and RepoNameWithOwner().
C13_ProviderFields ==
  /\ AfterSelect =>
       /\ Name(pm) = ProviderNames[KindIndex(FirstMatch(envs))]
       /\ \E i \in 1..Len(ProviderNames) : Name(pm) = ProviderNames[i]
       /\ log[1] = <<"Detected build environment", Name(pm)>>
  /\ AfterProviderData =>
       /\ m.CIProvider = Name(pm)
       /\ m.Branch = Branch(pm)
       /\ m.BuildURL = BuildURL(pm)
       /\ m.RepoNameWithOwner = RepoNameWithOwner(pm).val

C13_Witness ==
  /\ pc = "returned"
  /\ pm.kind = "bitbucketMetadata"
  /\ m.CIProvider = <<"b","i","t","b","u","c","k","e","t",".","o","r","g">>
  /\ m.RepoNameWithOwner = <<"/">>
  /\ m.Branch = EmptyString

\* C14: the Metadata NewMetadata returns holds the caller's tags, unchanged
\* and in order, and the caller's quota ID; the serialised document has the
\* key :tags exactly when the list of tags is not empty, then with the tags
\* as its entries in order, and the key :quota_id exactly when the quota ID
\* is not the empty string.
C14_TagsAndQuotaID ==
  /\ pc \in {"returned", "marshalled"} =>
       (m.Tags = tags /\ m.QuotaID = quotaID)
  /\ pc = "marshalled" =>
       /\ ":tags" \in Keys(yaml) <=> Len(tags) > 0
       /\ ":tags" \in Keys(yaml) =>
            /\ Len(ValueOf(yaml, ":tags")) = Len(tags)
            /\ \A i \in 1..Len(tags) : ValueOf(yaml, ":tags")[i] = tags[i]
       /\ ":quota_id" \in Keys(yaml) <=> quotaID # EmptyString
       /\ ":quota_id" \in Keys(yaml) => ValueOf(yaml, ":quota_id") = quotaID

C14_Witness ==
  /\ pc = "marshalled"
  /\ tags = <<<<"t","1">>, <<"t","2">>>>
  /\ quotaID = EmptyString
  /\ ValueOf(yaml, ":tags") = <<<<"t","1">>, <<"t","2">>>>
  /\ ":quota_id" \notin Keys(yaml)

---------------------------------------------------------------------------
(* C15                                                                     *)

\* the position of the field with the given yaml key in a struct (0: none)
RowOf(fields, key) ==
  IF \E j \in 1..Len(fields) : fields[j].key = key
  THEN CHOOSE j \in 1..Len(fields) : fields[j].key = key
  ELSE 0

\* doc is the serialization of one struct: each entry is a field's key with
\* the field's value, the entries are in field order, and every field that
\* has a key and is not tagged omitempty is there
IsBlockOf(doc, fields, values) ==
  /\ \A i \in 1..Len(doc) :
       /\ RowOf(fields, doc[i].key) # 0
       /\ doc[i].val = values[fields[RowOf(fields, doc[i].key)].go]
  /\ \A i, j \in 1..Len(doc) :
       i < j => RowOf(fields, doc[i].key) < RowOf(fields, doc[j].key)
  /\ \A j \in 1..Len(fields) :
       (fields[j].key # "-" /\ ~fields[j].omitempty)
         => \E i \in 1..Len(doc) : doc[i].key = fields[j].key

\* C15: the document MarshalYAML returns is the serialization of the
\* universal fields followed immediately by the serialization of the active
\* provider's fields, so every universal entry precedes every provider
\* entry; when either yaml.Marshal call fails MarshalYAML returns that error
\* and no bytes.
C15_UniversalThenProvider ==
  /\ pc \in {"marshalled", "marshalled twice"} =>
       /\ encoder = "none"
       /\ yamlErr = NoError
       /\ \E n \in 1..Len(yaml) :
            /\ IsBlockOf(SubSeq(yaml, 1, n), metadataFields, m)
            /\ IsBlockOf(SubSeq(yaml, n + 1, Len(yaml)), FieldsOf(pm.kind), pm.f)
  /\ pc = "marshal failed" =>
       /\ encoder # "none"
       /\ yamlErr = MarshalError(encoder)
       /\ yaml = <<>>
  /\ encoder # "none" => pc \notin {"marshalled", "marshalled twice"}

\* a Buildkite document: the universal block, then Buildkite's own keys
C15_Witness ==
  /\ pc = "marshalled"
  /\ pm.kind = "buildkiteMetadata"
  /\ yaml[1].key = ":branch"
  /\ yaml[Len(yaml)].key \notin
       {metadataFields[j].key : j \in 1..Len(metadataFields)}

\* the document is lost when the provider's block cannot be serialised
C15_FailureReached ==
  /\ pc = "marshal failed"
  /\ encoder = "provider"
  /\ yaml = <<>>

---------------------------------------------------------------------------
(* C16                                                                     *)

---------------------------------------------------------------------------
(* C17                                                                     *)

\* whether a string is a value of a field's type: a decimal number (the
\* strings drawn are too short to leave the range of uint or uint64), or one
\* of the spellings of true and false
BoolSpellings ==
  {<<"1">>, <<"t">>, <<"T">>, <<"T","R","U","E">>, <<"t","r","u","e">>,
   <<"T","r","u","e">>, <<"0">>, <<"f">>, <<"F">>, <<"F","A","L","S","E">>,
   <<"f","a","l","s","e">>, <<"F","a","l","s","e">>}
IsOfType(typ, v) ==
  IF typ = "bool" THEN v \in BoolSpellings
  ELSE /\ v # EmptyString
       /\ \A i \in 1..Len(v) : v[i] \in Digits
       /\ ~GreaterThan(Canonical([i \in 1..Len(v) |->
                                   CHOOSE d \in 0..9 : DigitChars[d + 1] = v[i]]),
                       IF typ = "uint64" THEN MaxUint64 ELSE MaxUint32)

\* the typed fields of the selected variant whose variable holds a value
\* that is not of the field's type; with or without the empty value
HeldBadly(kind, e) ==
  {j \in TypedRows(kind) :
     /\ FieldsOf(kind)[j].env \in DOMAIN e
     /\ ~IsOfType(FieldsOf(kind)[j].typ, e[FieldsOf(kind)[j].env])}
NonEmptyHeldBadly(kind, e) ==
  {j \in HeldBadly(kind, e) : e[FieldsOf(kind)[j].env] # EmptyString}

\* the fields that the aggregate error of env.Parse reports as not parsed
ParseErrorFields(error) ==
  IF error # NoError /\ error[1] = "env"
  THEN {error[2][i][2] : i \in {k \in 1..Len(error[2]) :
                                  error[2][k][1] = "parse error on field"}}
  ELSE {}

\* C17 as stated: a variable of a numeric or boolean field of the selected
\* variant that holds any value not of the field's type makes Init fail.
C17_AnyBadValueFailsInit ==
  (AfterInit /\ HeldBadly(pm.kind, envs) # {}) => pc = "failed"

\* C17: when a variable bound to a numeric or boolean field of the selected
\* variant holds a non-empty value that is not of the field's type, Init
\* fails with an error naming that field, NewMetadata returns the error and
\* no Metadata, and the resolver is not asked; a variable that is unset or
\* empty is never reported and leaves its field at the zero value.
C17_TypeErrorsFailInit ==
  AfterInit =>
    /\ NonEmptyHeldBadly(pm.kind, envs) # {} =>
         /\ pc = "failed"
         /\ m = ZeroMetadata
         /\ calls.lookup = 0
    /\ ParseErrorFields(err) =
         {FieldsOf(pm.kind)[j].go : j \in NonEmptyHeldBadly(pm.kind, envs)}
    /\ pc # "failed" =>
         \A j \in TypedRows(pm.kind) :
           Get(envs, FieldsOf(pm.kind)[j].env) = EmptyString =>
             pm.f[FieldsOf(pm.kind)[j].go] = Zero(FieldsOf(pm.kind)[j].typ)

\* BUILDKITE_BUILD_NUMBER=abc and BUILDKITE_RETRY_COUNT=x: both reported
C17_Witness ==
  /\ pc = "failed"
  /\ pm.kind = "buildkiteMetadata"
  /\ Get(envs, "BUILDKITE_BUILD_NUMBER") = <<"a","b","c">>
  /\ ParseErrorFields(err) = {"BuildkiteBuildNumber", "BuildkiteRetryCount"}

\* CIRCLE_PR_NUMBER set to the empty string: Init succeeds, the number is 0
C17_EmptyValueAccepted ==
  /\ pc = "returned"
  /\ pm.kind = "circleMetadata"
  /\ "CIRCLE_PR_NUMBER" \in DOMAIN envs
  /\ envs["CIRCLE_PR_NUMBER"] = EmptyString
  /\ pm.f.CirclePullRequestNumber = Uint(0)

---------------------------------------------------------------------------
(* C18                                                                     *)

\* C18 as stated: for the Buildkite and the Jenkins variant, when the remote
\* (BUILDKITE_REPO, GIT_URL) is absent or is not a github.com remote with a
\* name-with-owner, Init fails with the error that carries that URL,
\* NewMetadata returns it and no Metadata, and the resolver is never asked.
C18_BadRemoteFailsInit ==
  (/\ AfterInit
   /\ pm.kind \in {"buildkiteMetadata", "jenkinsMetadata"}
   /\ ~WellFormedRemote(RemoteOf(envs))) =>
    /\ pc = "failed"
    /\ err = MalformedURLError(RemoteOf(envs))
    /\ m = ZeroMetadata
    /\ calls.lookup = 0
    /\ lookups = <<>>

\* what does hold: whenever nameWithOwnerFromGitURL rejects the remote (and,
\* for Jenkins, BUILD_URL is there), Init fails with the error carrying the
\* URL, no Metadata is built and the resolver is never asked
C18_RejectedRemoteFailsInit ==
  (/\ AfterInit
   /\ pm.kind \in {"buildkiteMetadata", "jenkinsMetadata"}
   /\ pm.kind = "jenkinsMetadata" => Get(envs, "BUILD_URL") # EmptyString
   /\ nameWithOwnerFromGitURL(RemoteOf(envs)).err # NoError) =>
    /\ pc = "failed"
    /\ err = MalformedURLError(RemoteOf(envs))
    /\ m = ZeroMetadata
    /\ calls.lookup = 0
    /\ lookups = <<>>

\* Buildkite with a remote that names no repository: Init succeeds, the
\* resolver is asked and the Metadata carries an empty name-with-owner
C18_AcceptedWithoutName ==
  /\ pc = "returned"
  /\ pm.kind = "buildkiteMetadata"
  /\ Get(envs, "BUILDKITE_REPO") = <<"g","i","t","@">> \o sGithubCom \o <<"/">>
  /\ m.RepoNameWithOwner = EmptyString
  /\ calls.lookup = 1

---------------------------------------------------------------------------
(* C19                                                                     *)

\* the commits of the repository whose SHA is the given string
CommitsWithSHA(r, sha) == {c \in r.objects : c.SHA = sha}

\* C19 as stated: repositoryCommitResolver.Lookup(sha) succeeds exactly when
\* the object database holds a commit with that SHA; on success it returns
\* that commit, whose SHA equals the requested one, with its tree, author,
\* committer, times and message; on failure it returns no commit and an
\* error that carries the requested SHA; Source() is "Repository".
C19_RepositoryLookup ==
  resolver.kind = "Repository" =>
    /\ Source(resolver) = <<"R","e","p","o","s","i","t","o","r","y">>
    /\ \A i \in 1..Len(lookups) :
         /\ lookups[i].err = NoError <=>
              CommitsWithSHA(resolver, lookups[i].sha) # {}
         /\ lookups[i].err = NoError =>
              /\ lookups[i].commit.SHA = lookups[i].sha
              /\ lookups[i].commit \in resolver.objects
         /\ lookups[i].err # NoError =>
              /\ lookups[i].commit = ZeroCommit
              /\ lookups[i].err = <<"unable to find commit with SHA", lookups[i].sha>>

\* what does hold: the commit looked for is the one whose SHA is
\* plumbing.NewHash(sha), which need not be the string asked for
C19_LookupByNewHash ==
  resolver.kind = "Repository" =>
    /\ Source(resolver) = <<"R","e","p","o","s","i","t","o","r","y">>
    /\ \A i \in 1..Len(lookups) :
         /\ lookups[i].err = NoError <=>
              CommitsWithSHA(resolver, NewHash(lookups[i].sha)) # {}
         /\ lookups[i].err = NoError =>
              /\ lookups[i].commit.SHA = NewHash(lookups[i].sha)
              /\ lookups[i].commit \in resolver.objects
         /\ lookups[i].err # NoError =>
              /\ lookups[i].commit = ZeroCommit
              /\ lookups[i].err = <<"unable to find commit with SHA", lookups[i].sha>>

\* a SHA with a trailing blank is found and answered with another SHA
C19_FoundUnderAnotherSHA ==
  /\ resolver.kind = "Repository"
  /\ Len(lookups) = 1
  /\ lookups[1].sha = ShaTrailing
  /\ lookups[1].err = NoError
  /\ lookups[1].commit.SHA = ShaA

---------------------------------------------------------------------------
(* C20                                                                     *)

\* a string of exactly 40 lower-case hexadecimal digits
LowerHex == {"0","1","2","3","4","5","6","7","8","9","a","b","c","d","e","f"}
IsTreeSHA(v) == Len(v) = 40 /\ \A i \in 1..Len(v) : v[i] \in LowerHex

\* C20: Submit.Init returns an error whenever both -repository-dir and -tree
\* are given and whenever -tree is given with a value that is not exactly 40
\* lower-case hexadecimal digits; after a successful Init the resolver
\* installed is the Static one, built from a Commit that holds only that
\* tree SHA, exactly when -tree was given, and otherwise the Repository one
\* built from the path of -repository-dir ("." by default); when Init
\* returns an error no resolver is installed.
C20_SubmitInitResolver ==
  pc = "Submit.Init returned" =>
    LET given == submit.args.flags
        flagset == DOMAIN given
        r == submit.commitResolver
    IN /\ ("repository-dir" \in flagset /\ "tree" \in flagset) => err # NoError
       /\ ("tree" \in flagset /\ ~IsTreeSHA(given["tree"])) => err # NoError
       /\ err # NoError => r = NoResolver
       /\ err = NoError =>
            /\ r # NoResolver
            /\ Source(r) = <<"S","t","a","t","i","c">> <=> "tree" \in flagset
            /\ "tree" \notin flagset =>
                 Source(r) = <<"R","e","p","o","s","i","t","o","r","y">>
            /\ (submit.factory = "default" /\ "tree" \in flagset) =>
                 r = [kind |-> "Static",
                      commit |-> [ZeroCommit EXCEPT !.TreeSHA = given["tree"]]]
            /\ (submit.factory = "default" /\ "tree" \notin flagset) =>
                 /\ r.kind = "Repository"
                 /\ r.path = IF "repository-dir" \in flagset
                             THEN given["repository-dir"] ELSE "."
                 /\ r.path \in fsys.repos

\* -tree given alone with a tree SHA: the Static resolver is installed
C20_Witness ==
  /\ pc = "Submit.Init returned"
  /\ err = NoError
  /\ submit.factory = "default"
  /\ "tree" \in DOMAIN submit.args.flags
  /\ "repository-dir" \notin DOMAIN submit.args.flags
  /\ submit.commitResolver.kind = "Static"
  /\ submit.commitResolver.commit.TreeSHA = ShaA
  /\ submit.commitResolver.commit.SHA = EmptyString

\* no repository in the directory given: an error and no resolver
C20_NoRepositoryFound ==
  /\ pc = "Submit.Init returned"
  /\ err = <<"invalid value for flag -repository-dir",
             <<"no repository found at", "d">>>>
  /\ submit.commitResolver = NoResolver

---------------------------------------------------------------------------
\* where NewMetadata or its caller stands once initTimestamp and the
\* stamping of the version have run
Stamped == {"returned", "marshalled", "marshalled twice", "marshal failed"}

\* C23: NewMetadata runs provider detection and Init, then the commit
\* lookup, then the timestamp, then the version stamping.  Lookup is called
\* at most once, only after the variant's Init succeeded, and with exactly
\* the variant's CommitSHA(); the clock is called at most once, only after
\* the lookup returned, and exactly once in every NewMetadata that returns
\* a Metadata; when detection or Init fails neither the resolver nor the
\* clock is called and no Metadata is returned.
C23_StepOrder ==
  [][/\ calls'.lookup <= 1 /\ calls'.clock <= 1
     /\ Len(lookups') = calls'.lookup
     /\ calls'.lookup > calls.lookup
          => /\ pc = "initCommitData"
             /\ err = NoError
             /\ ProviderInit(pm.kind, envs).err = NoError
             /\ pm = ProviderInit(pm.kind, envs).pm
             /\ lookups'[1].sha = CommitSHA(pm)
             /\ calls.clock = 0
     /\ calls'.clock > calls.clock
          => /\ pc = "initTimestamp"
             /\ calls.lookup = 1
     /\ (pc' \in {"newProviderMetadata", "pm.Init", "initProviderData",
                  "initCommitData", "failed", "exit", "panic"})
          => calls' = [lookup |-> 0, clock |-> 0]
     /\ pc' = "failed" => /\ m' = ZeroMetadata
                          /\ err' # NoError
                          /\ ProviderInit(pm'.kind, envs').err = err'
     /\ pc' \in Stamped \cup {"initVersionData", "return"}
          => calls' = [lookup |-> 1, clock |-> 1]
     /\ pc' = "initTimestamp" => calls' = [lookup |-> 1, clock |-> 0]
    ]_vars

\* a NewMetadata that returned a Metadata after one lookup and one reading
\* of the clock
C23_Witness ==
  /\ pc = "returned"
  /\ calls = [lookup |-> 1, clock |-> 1]
  /\ lookups[1].sha = CommitSHA(pm)
  /\ lookups[1].sha # EmptyString
  /\ m.Timestamp = clock

\* a NewMetadata whose variant failed in Init: nothing was called
C23_InitFailed ==
  pc = "failed" /\ calls = [lookup |-> 0, clock |-> 0] /\ m = ZeroMetadata

---------------------------------------------------------------------------
\* the struct field each variant's CommitSHA() returns
CommitField(kind) ==
  CASE kind = "buildkiteMetadata" -> "BuildkiteCommit"
    [] kind = "circleMetadata" -> "CircleSHA1"
    [] kind = "githubMetadata" -> "GithubSHA"
    [] kind = "semaphoreMetadata" -> "SemaphoreGitSHA"
    [] kind = "travisMetadata" -> "TravisCommit"
    [] kind = "awsCodeBuildMetadata" -> "CodebuildResolvedSourceVersion"
    [] kind = "bitbucketMetadata" -> "BitbucketCommit"
    [] kind = "azurePipelinesMetadata" -> "SourceVersion"
    [] OTHER -> "GitCommit"

\* the environment variable that field is read from, by its env tag
CommitVariable(kind) ==
  LET rows == FieldsOf(kind)
      i == CHOOSE j \in 1..Len(rows) : rows[j].go = CommitField(kind)
  IN rows[i].env

\* the lines of the log that announce the commit SHA
CommitLines == {i \in 1..Len(log) : log[i][1] = "Using commit SHA variable"}

\* C24: after a successful Init of any variant, the log line announcing the
\* commit SHA names the environment variable whose value CommitSHA()
\* returns, and the value it shows equals CommitSHA().
C24_LogNamesCommitVariable ==
  (AfterInit /\ pc # "failed")
    => /\ CommitLines # {}
       /\ \A i \in CommitLines :
            log[i] = CommitLog(CommitVariable(pm.kind), CommitSHA(pm))

\* what holds: one such line is written, its value is CommitSHA(), which is
\* the value of the variable of the field's env tag, and the name in the
\* line is that variable for every variant but aws-codebuild, bitbucket.org
\* and azure-pipelines, where the line says GIT_COMMIT.
C24_LogShowsCommitSHA ==
  (AfterInit /\ pc # "failed")
    => /\ Cardinality(CommitLines) = 1
       /\ CommitSHA(pm) = Get(envs, CommitVariable(pm.kind))
       /\ \A i \in CommitLines :
            /\ log[i][3] = CommitSHA(pm)
            /\ log[i][2] =
                 IF pm.kind \in {"awsCodeBuildMetadata", "bitbucketMetadata",
                                 "azurePipelinesMetadata"}
                 THEN "GIT_COMMIT"
                 ELSE CommitVariable(pm.kind)

\* aws-codebuild initialised: the line names GIT_COMMIT, which holds another
\* value, and shows the value of CODEBUILD_RESOLVED_SOURCE_VERSION
C24_WrongVariableNamed ==
  /\ pc = "initProviderData"
  /\ pm.kind = "awsCodeBuildMetadata"
  /\ CommitSHA(pm) # EmptyString
  /\ Get(envs, "GIT_COMMIT") # CommitSHA(pm)
  /\ \E i \in CommitLines : log[i] = CommitLog("GIT_COMMIT", CommitSHA(pm))

---------------------------------------------------------------------------
sMissingBuildURL == <<"missing required environment variable", "BUILD_URL">>

\* C27: for the Jenkins variant whose declared variables parsed, Init fails
\* with "missing required environment variable: BUILD_URL" exactly when
\* BUILD_URL is unset or empty, whatever GIT_URL holds (the check comes
\* before the name-with-owner is taken from GIT_URL), and after a
\* successful Init BuildURL() is the value of BUILD_URL.
C27_JenkinsBuildURL ==
  (/\ AfterInit
   /\ pm.kind = "jenkinsMetadata"
   /\ EnvParse(FieldsOf("jenkinsMetadata"), envs).err = NoError)
    => /\ (pc = "failed" /\ err = sMissingBuildURL)
            <=> ("BUILD_URL" \notin DOMAIN envs
                 \/ envs["BUILD_URL"] = EmptyString)
       /\ pc # "failed" => /\ "BUILD_URL" \in DOMAIN envs
                           /\ BuildURL(pm) = envs["BUILD_URL"]
                           /\ BuildURL(pm) # EmptyString

\* Jenkins without BUILD_URL and with a remote that is no GitHub URL: the
\* error is the one about BUILD_URL
C27_Witness ==
  /\ pc = "failed"
  /\ pm.kind = "jenkinsMetadata"
  /\ Get(envs, "BUILD_URL") = EmptyString
  /\ nameWithOwnerFromGitURL(Get(envs, "GIT_URL")).err # NoError
  /\ err = sMissingBuildURL

\* Jenkins initialised: BuildURL() is BUILD_URL
C27_Initialised ==
  /\ pc = "initProviderData"
  /\ pm.kind = "jenkinsMetadata"
  /\ BuildURL(pm) = envs["BUILD_URL"]

---------------------------------------------------------------------------
\* the positions of a document at which the key stands
Occurrences(doc, key) == {i \in 1..Len(doc) : doc[i].key = key}

\* the keys of the struct tags of a field table
TagKeys(fields) == {fields[i].key : i \in 1..Len(fields)} \ {"-"}

\* C28: no key occurs twice in a document MarshalYAML produced, and for
\* every variant, custom included, the keys of the provider's fields are
\* disjoint from the universal keys.
C28_NoDuplicateKeys ==
  pc = "marshalled"
    => /\ \A k \in Keys(yaml) : Cardinality(Occurrences(yaml, k)) = 1
       /\ TagKeys(FieldsOf(pm.kind)) \cap TagKeys(metadataFields) = {}

\* what holds: for every variant but custom the two sets of keys are
\* disjoint and no key occurs twice; for custom the one common key is
\* :build_url, which occurs twice, with the same value, and no other key
\* occurs twice.
C28_OnlyCustomRepeatsBuildURL ==
  pc = "marshalled"
    => IF pm.kind = "customMetadata"
       THEN /\ TagKeys(FieldsOf(pm.kind)) \cap TagKeys(metadataFields)
                 = {":build_url"}
            /\ \A k \in Keys(yaml) :
                 Cardinality(Occurrences(yaml, k))
                   = IF k = ":build_url" THEN 2 ELSE 1
            /\ \A i \in Occurrences(yaml, ":build_url") :
                 yaml[i].val = envs["BUILD_URL"]
       ELSE /\ TagKeys(FieldsOf(pm.kind)) \cap TagKeys(metadataFields) = {}
            /\ \A k \in Keys(yaml) : Cardinality(Occurrences(yaml, k)) = 1

\* the document of the custom variant: :build_url stands in it twice
C28_BuildURLTwice ==
  /\ pc = "marshalled"
  /\ pm.kind = "customMetadata"
  /\ Cardinality(Occurrences(yaml, ":build_url")) = 2

---------------------------------------------------------------------------
\* the argument list Init was called with, and whether an argument begins
\* with "-"
Argv == submit.args.argv
Dashed(v) == v # EmptyString /\ Head(v) = "-"

\* the arguments before the first one that begins with "-"
BeforeFirstFlag(args) ==
  LET n == IF \E i \in 1..Len(args) : Dashed(args[i])
           THEN (CHOOSE i \in 1..Len(args) :
                   Dashed(args[i]) /\ \A j \in 1..(i - 1) : ~Dashed(args[j])) - 1
           ELSE Len(args)
  IN SubSeq(args, 1, n)

\* C29: for every argument list, pathsAndFlagsFromArgs returns paths and
\* flags such that paths followed by flags is the argument list, no path
\* begins with "-", and flags is empty or begins with the first argument
\* that begins with "-"; so an argument after the first flag is never
\* taken as a test-results path by Init.
C29_PathsThenFlags ==
  LET r == pathsAndFlagsFromArgs(Argv)
  IN /\ r.paths \o r.flags = Argv
     /\ \A i \in 1..Len(r.paths) : ~Dashed(r.paths[i])
     /\ r.flags # <<>> => Dashed(r.flags[1])
     /\ r.flags = <<>> => \A i \in 1..Len(Argv) : ~Dashed(Argv[i])
     /\ (pc = "Submit.Init returned" /\ err = NoError)
          => submit.paths = xmlPathsFromArgs(fsys, BeforeFirstFlag(Argv)).paths

\* Init returned for a list in which the directory with the report stands
\* only after the first flag: its report is not among the paths
C29_Witness ==
  /\ pc = "Submit.Init returned"
  /\ Argv = <<sE, sAnyFlag, sD>>
  /\ fsys.entries = ReportTree
  /\ pathsAndFlagsFromArgs(Argv) = [paths |-> <<sE>>, flags |-> <<sAnyFlag, sD>>]
  /\ err = NoError
  /\ submit.paths = <<>>

---------------------------------------------------------------------------
\* what an argument yields, read off the tree: the entries at or below a
\* directory, or matching the argument, whose name ends in .xml in any case
EndsInXML(path) ==
  /\ Len(path) >= 4
  /\ LET n == Len(path)
     IN /\ path[n - 3] = "."
        /\ path[n - 2] \in {"x", "X"}
        /\ path[n - 1] \in {"m", "M"}
        /\ path[n] \in {"l", "L"}
ReportsAt(files, arg) ==
  {i \in 1..Len(files.entries) :
     LET p == files.entries[i].path
     IN /\ EndsInXML(p)
        /\ IF IsDir(files, arg)
           THEN \/ Abs(files, p) = Stat(files, arg).real
                \/ IsBelow(Abs(files, p), Stat(files, arg).real)
           ELSE Match(arg, p).matched}
YieldNothing(files, pathArgs) ==
  /\ xmlPathsFromArgs(files, pathArgs).err = NoError
  /\ \A i \in 1..Len(pathArgs) : ReportsAt(files, pathArgs[i]) = {}

sNoReports == "no XML reports found at TEST_RESULTS_PATH"

\* C22: when Init has its working directory and the path arguments yield no
\* XML report, Init goes on (and, its flags and credentials being in order,
\* succeeds with an empty list of reports) only when exactly one path
\* argument was given and it is an existing directory; in every other such
\* case it fails with "no XML reports found at TEST_RESULTS_PATH: " and the
\* path arguments joined by blanks; with no path argument before the first
\* flag it fails with "missing TEST_RESULTS_PATH".
C22_NoReportsFound ==
  (pc = "Submit.Init returned" /\ submit.args.getwd)
    => LET pathArgs == BeforeFirstFlag(Argv)
           oneDir == Len(pathArgs) = 1 /\ IsDir(fsys, pathArgs[1])
       IN /\ pathArgs = <<>> => err = <<"missing TEST_RESULTS_PATH">>
          /\ (pathArgs # <<>> /\ YieldNothing(fsys, pathArgs))
               => IF oneDir
                  THEN /\ submit.paths = <<>>
                       /\ err # NoError => err[1] # sNoReports
                       /\ (submit.args.parse /\ submit.accountID # Uint(0)
                           /\ submit.repositoryID # Uint(0)
                           /\ envs = Credentials /\ "." \in fsys.repos
                           /\ DOMAIN submit.args.flags
                                \cap {"tree", "repository-dir"} = {})
                            => err = NoError
                  ELSE err = <<sNoReports, JoinSpaces(pathArgs)>>
          /\ (err = NoError /\ submit.paths = <<>>) => oneDir

\* Init succeeded for the one empty directory, with no report
C22_Witness ==
  /\ pc = "Submit.Init returned"
  /\ Argv = <<sE, sAnyFlag>>
  /\ IsDir(fsys, sE)
  /\ err = NoError
  /\ submit.paths = <<>>

\* Init failed for two paths, one of them a directory, that yield nothing
C22_SeveralPaths ==
  /\ pc = "Submit.Init returned"
  /\ Argv = <<sE, sText, sAnyFlag>>
  /\ fsys.entries = ReportTree
  /\ err = <<sNoReports, <<"e", " ", "n", ".", "t", "x", "t">>>>

---------------------------------------------------------------------------
\* the calls made on the Tar so far, and the entries of each kind
WriteCalls == SelectSeq(tar.calls, LAMBDA c : c.op = "Write")
CloseCalls == SelectSeq(tar.calls, LAMBDA c : c.op = "Close")
EntriesOf(typ) == SelectSeq(tar.out, LAMBDA h : h.typ = typ)
AllWritesSucceeded ==
  \A i \in 1..Len(WriteCalls) :
     WriteCalls[i].err = NoError /\ WriteCalls[i].crash = "none"

\* C30: over any sequence of successful Write calls on one Tar, each
\* destination directory gets at most one directory header, and gets it
\* before the first file entry placed in it; no directory header is written
\* for the destination directory "."; every Write appends exactly one file
\* entry, under the destination name it was given; and Close is idempotent:
\* a second Close returns nil and writes nothing.
C30_TarEntries ==
  pc = "Tar"
    => /\ AllWritesSucceeded
            => /\ \A i, j \in 1..Len(tar.out) :
                    (/\ i < j
                     /\ tar.out[i].typ = "dir"
                     /\ tar.out[j].typ = "dir")
                      => tar.out[i].name # tar.out[j].name
               /\ \A i \in 1..Len(tar.out) :
                    tar.out[i].typ = "dir"
                      => /\ tar.out[i].name # sDot
                         /\ \E j \in (i + 1)..Len(tar.out) :
                              /\ tar.out[j].typ = "file"
                              /\ Dir(tar.out[j].name) = tar.out[i].name
               /\ \A j \in 1..Len(tar.out) :
                    (tar.out[j].typ = "file" /\ Dir(tar.out[j].name) # sDot)
                      => \E i \in 1..(j - 1) :
                            tar.out[i] = Header("dir", Dir(tar.out[j].name))
               /\ Len(EntriesOf("file")) = Len(WriteCalls)
               /\ \A i \in 1..Len(WriteCalls) :
                    EntriesOf("file")[i].name = WriteCalls[i].dest
               /\ \A i \in 1..Len(CloseCalls) : CloseCalls[i].err = NoError
               /\ Len(EntriesOf("trailer")) =
                    IF Len(CloseCalls) = 0 THEN 0 ELSE 1
               /\ Len(CloseCalls) > 0 => tar.out[Len(tar.out)].typ = "trailer"
       /\ \A i \in 2..Len(CloseCalls) : CloseCalls[i].err = NoError
       /\ Len(EntriesOf("trailer")) <= 1
       /\ \A i \in 1..Len(tar.calls) :
            (tar.calls[i].op = "Close" /\ i > 1
             /\ \E j \in 1..(i - 1) : tar.calls[j].op = "Close")
              => tar.calls[i].written = tar.calls[i - 1].written
       /\ Len(CloseCalls) > 0 => tar.writer = "nil"

\* two files written into the same directory, under two spellings of it,
\* and one into ".": one header for the directory, before its first file
C30_Witness ==
  /\ pc = "Tar"
  /\ Len(WriteCalls) = 3
  /\ AllWritesSucceeded
  /\ tar.out = <<Header("file", <<".", "/", "g">>),
                 Header("dir", <<"t">>),
                 Header("file", <<"t", "/", "a">>),
                 Header("file", <<".", "/", "t", "/", "/", "e">>)>>

\* a Tar closed twice after a Write: one trailer, both calls returned nil
C30_ClosedTwice ==
  /\ pc = "Tar"
  /\ Len(CloseCalls) = 2
  /\ Len(WriteCalls) = 1
  /\ AllWritesSucceeded
  /\ Len(tar.out) = 3

----------------------------------------------------------------------------
\* Run has returned, and the steps it can have gone through
RunReturned == run # NotRunning /\ pc = "Run returned"
StepsUpTo(n) == SubSeq(<<"bundle", "toGz", "upload">>, 1, n)

\* C21: upload returns the key <accountID>/<repositoryID>/buildpulse-<id>.gz
\* when the put succeeds and the empty key with the error when it fails; Run
\* returns a non-empty key only if bundle, toGz and upload all succeeded, in
\* that order, and otherwise returns the first error with the empty key
\* and without attempting the later steps.
C21_RunKey ==
  RunReturned
    => /\ run.steps \in {StepsUpTo(n) : n \in 1..3}
       /\ (run.key # EmptyString) = (run.err = NoError)
       /\ run.key # EmptyString
            => /\ run.steps = StepsUpTo(3)
               /\ run.fault = "none"
               /\ run.key = FormatUint(submit.accountID) \o <<"/">>
                            \o FormatUint(submit.repositoryID)
                            \o <<"/","b","u","i","l","d","p","u","l","s","e",
                                 "-">>
                            \o run.id \o <<".","g","z">>
               /\ run.tarpath # EmptyString /\ run.zippath # EmptyString
       /\ run.err # NoError
            => /\ run.tarpath = EmptyString <=> run.steps = StepsUpTo(1)
               /\ run.zippath = EmptyString <=> run.steps # StepsUpTo(3)
               /\ run.fault \in {"yml", "tar", "log"}
                    => run.steps = StepsUpTo(1)
               /\ (run.fault = "gz" /\ run.tarpath # EmptyString)
                    => /\ run.steps = StepsUpTo(2)
                       /\ run.err = <<"CreateTemp", "gz">>
               /\ (run.fault = "put" /\ run.tarpath # EmptyString)
                    => /\ run.steps = StepsUpTo(3)
                       /\ run.err = <<"upload failed", submit.bucket>>

\* Run has returned the key of the object it put
C21_Witness ==
  /\ RunReturned
  /\ run.steps = StepsUpTo(3)
  /\ run.key # EmptyString
  /\ run.err = NoError

----------------------------------------------------------------------------
\* the blank-separated words of a string, the empty ones left out
Words(s) == SelectSeq(SplitSpaces(s), LAMBDA w : w # EmptyString)

\* bundle has called NewMetadata
MetadataRequested == run # NotRunning /\ Len(run.steps) > 0

\* C25: bundle passes to NewMetadata exactly the space-separated tags of
\* the -tags flag, in order; when the flag is omitted the tag list passed is
\* empty, so the buildpulse.yml written into the archive has no :tags key.
C25_TagsOfFlag ==
  MetadataRequested
    => /\ tags = Words(submit.tagsString)
       /\ submit.tagsString = EmptyString
            => /\ tags = <<>>
               /\ pc = "marshalled" => ":tags" \notin Keys(yaml)

\* what holds: the tag list passed is the tags string split at every blank,
\* which for the empty string is the list of one empty tag, and the YAML
\* document always has the :tags key.
C25_TagsSplitAtEveryBlank ==
  MetadataRequested
    => /\ tags = SplitSpaces(submit.tagsString)
       /\ Len(tags) >= 1
       /\ submit.tagsString = EmptyString => tags = <<EmptyString>>
       /\ pc = "marshalled"
            => /\ ":tags" \in Keys(yaml)
               /\ ValueOf(yaml, ":tags") = tags

\* the flag was omitted and the document has a :tags key
C25_EmptyTagWritten ==
  /\ MetadataRequested
  /\ "tags" \notin DOMAIN submit.args.flags
  /\ pc = "marshalled"
  /\ ":tags" \in Keys(yaml)

----------------------------------------------------------------------------
\* the names of the file entries of the archive, and a list under a prefix
FileNames ==
  [i \in 1..Len(EntriesOf("file")) |-> EntriesOf("file")[i].name]
Prefixed(prefix, paths) == [i \in 1..Len(paths) |-> prefix \o paths[i]]
IsPrefix(s, t) == Len(s) <= Len(t) /\ s = SubSeq(t, 1, Len(s))
sCoveragePrefix == <<"c","o","v","e","r","a","g","e","/">>
sResultsPrefix == <<"t","e","s","t","_","r","e","s","u","l","t","s","/">>

\* the coverage paths the claim has bundle write
CoverageExpected ==
  IF Len(submit.coveragePaths) > 0 THEN submit.coveragePaths
  ELSE IF submit.disableCoverageAutoDiscovery THEN <<>>
  ELSE coveragePathsInferred(submit, fsys).paths
EntriesExpected ==
  Prefixed(sResultsPrefix, submit.paths)
  \o Prefixed(sCoveragePrefix, CoverageExpected)
  \o <<sBuildpulseYml, sBuildpulseLog>>

\* C26: with explicit coverage paths exactly those are written under
\* coverage/ and auto-discovery is not run; with none given and
\* auto-discovery not disabled exactly the auto-discovered paths are
\* written; with none given and auto-discovery disabled no coverage entry
\* is written; in all cases every test-result path is written under
\* test_results/ before any coverage entry, and buildpulse.yml and then
\* buildpulse.log are written after them.
C26_CoverageEntries ==
  (run # NotRunning /\ tar # NoTar)
    => /\ IsPrefix(FileNames, EntriesExpected)
       /\ run.tarpath # EmptyString => FileNames = EntriesExpected
       /\ run.inferred => /\ Len(submit.coveragePaths) = 0
                          /\ ~submit.disableCoverageAutoDiscovery
       /\ (run.tarpath # EmptyString /\ ~run.inferred)
            => \/ Len(submit.coveragePaths) > 0
               \/ submit.disableCoverageAutoDiscovery
       /\ \A i, j \in 1..Len(FileNames) :
            (/\ HasPrefix(FileNames[i], sResultsPrefix)
             /\ ~HasPrefix(FileNames[j], sResultsPrefix))
              => i < j

\* bundle wrote the coverage files it discovered below the working
\* directory, in the order of the walk: the one that matches two patterns
\* twice, the one with a newline in its name, none of vendor/ and not the one
\* the block list names
C26_Witness ==
  /\ run # NotRunning
  /\ run.tarpath # EmptyString
  /\ run.inferred
  /\ FileNames = <<sResultsPrefix \o sReport>>
                 \o Prefixed(sCoveragePrefix,
                             <<sCoverOut, sLcovInfo, sTwice, sTwice, sTwoLines>>)
                 \o <<sBuildpulseYml, sBuildpulseLog>>
=============================================================================
